---- MODULE Spec2Model ----
(***************************************************************************)
(* The agent orchestration core of kaos: the bounded agentic loop          *)
(* (Agent.process_message / Agent._agentic_loop), the directive parser     *)
(* (Agent._parse_block), the peer handle (RemoteAgent), the tool bridge    *)
(* (MCPClient), the session store (LocalMemory) and the span stack         *)
(* (KaosOtelManager).                                                      *)
(*                                                                         *)
(* Execution is cooperative (asyncio): code between two awaits that reach  *)
(* the network runs atomically, so every action below is one such stretch: *)
(* the arrival of a collaborator's answer followed by everything the       *)
(* coroutine does up to its next network await or yield.                   *)
(***************************************************************************)
EXTENDS Integers, Sequences, FiniteSets, TLC

VARIABLES memory, clock, uuid, mcp_clients, sub_agents, req, otel_initialized,
          environ, config, journal, budget

vars == <<memory, clock, uuid, mcp_clients, sub_agents, req, otel_initialized,
          environ, config, journal, budget>>

-----------------------------------------------------------------------------
(* Bounds of the model *)

\* largest max_steps an Agent is configured with
MaxStepsBound == 2
\* largest max_events_per_session a LocalMemory is configured with
MaxEventsBound == 5
\* largest max_sessions of a LocalMemory in the small store configurations
MaxSessionsBound == 2
\* datetime.now() values of the store scenarios range over 0..MaxClock
MaxClock == 1

-----------------------------------------------------------------------------
(* Small helpers *)

Max(a, b) == IF a >= b THEN a ELSE b
MinOf(S) == CHOOSE m \in S : \A n \in S : m <= n

\* the elements of s whose index is in keep, in order
FilterIdx(s, keep) ==
  LET F[i \in 0..Len(s)] ==
        IF i = 0 THEN <<>>
        ELSE IF i \in keep THEN Append(F[i - 1], s[i]) ELSE F[i - 1]
  IN F[Len(s)]

\* Python's lst[-n:] for n >= 0 (n = 0 is lst[0:], the whole list)
SliceLast(s, n) ==
  IF n = 0 THEN s
  ELSE SubSeq(s, Max(1, Len(s) - n + 1), Len(s))

-----------------------------------------------------------------------------
(* JSON values and text                                                    *)
(*                                                                         *)
(* A text is a sequence of tokens.  Fence tokens stand for whole lines:    *)
(*   OT  the line ```tool_call      OD  the line ```delegate               *)
(*   CL  the line ```                                                      *)
(* the others are pieces of a line:                                        *)
(*   LB  {      RB  }      S  one blank      W  a word of prose            *)
(*   M   one well-formed member "k": v of a JSON object (with its comma)   *)
(*   J   text that is not JSON                                             *)
(***************************************************************************)

Str(s) == [kind |-> "str", s |-> s]
Num == [kind |-> "num", s |-> "5"]
List == [kind |-> "list", s |-> ""]
Obj == [kind |-> "obj", s |-> ""]
Null == [kind |-> "null", s |-> ""]

Tok(t) == [t |-> t, k |-> "", v |-> Str("")]
W(s) == [t |-> "W", k |-> "", v |-> Str(s)]
Mem(k, v) == [t |-> "M", k |-> k, v |-> v]

\* Python truthiness of a JSON value ("" and None are falsy; 5, ["x"], {..} are not)
Truthy(v) == ~(v.kind = "null" \/ (v.kind = "str" /\ v.s = ""))
\* list and dict values are unhashable: using one as a dict key raises TypeError
Hashable(v) == v.kind \notin {"list", "obj"}

\* json.loads of an object body: later duplicates of a key overwrite the value
\* and keep the first position
DictOf(body) ==
  LET F[i \in 0..Len(body)] ==
        IF i = 0 THEN <<>>
        ELSE LET d == F[i - 1]
                 m == body[i]
                 at == {j \in DOMAIN d : d[j].k = m.k}
             IN IF at = {} THEN Append(d, m)
                ELSE [j \in DOMAIN d |-> IF j \in at THEN m ELSE d[j]]
  IN F[Len(body)]

\* dict.get(key, default)
DictGet(d, key, default) ==
  LET at == {j \in DOMAIN d : d[j].k = key}
  IN IF at = {} THEN default ELSE d[MinOf(at)].v

NoBlock == [found |-> FALSE, obj |-> <<>>]

IsFence(tok) == tok.t \in {"OT", "OD", "CL"}

\* the token after position j, skipping blanks (the \s* of the pattern); 0 if none
NextNonBlank(content, j) ==
  LET later == {n \in (j + 1)..Len(content) : content[n].t # "S"}
  IN IF later = {} THEN 0 ELSE MinOf(later)

\* positions j where the lazy group ({.*?}) opened at i + 1 can end: a } that
\* is followed, after optional blanks, by a line starting with ```
GroupEnds(content, i) ==
  {j \in (i + 2)..Len(content) :
     /\ content[j].t = "RB"
     /\ NextNonBlank(content, j) # 0
     /\ IsFence(content[NextNonBlank(content, j)])}

\* a search that takes the last block of the kind, not the first (C40 tells
\* it from BlockMatch)
BlockMatch_LastBlock(content, block_type) ==
  LET fence == IF block_type = "tool_call" THEN "OT" ELSE "OD"
      starts == {i \in 1..(Len(content) - 1) :
                   /\ content[i].t = fence
                   /\ content[i + 1].t = "LB"
                   /\ GroupEnds(content, i) # {}}
  IN IF starts = {} THEN [matched |-> FALSE, body |-> <<>>]
     ELSE LET i == CHOOSE m \in starts : \A n \in starts : n <= m
              j == MinOf(GroupEnds(content, i))
          IN [matched |-> TRUE, body |-> SubSeq(content, i + 2, j - 1)]

\* re.search of the pattern: the leftmost fence line of the kind that is
\* directly followed by { and has a group end; the lazy group ends at the first
\* group end.  body is what stands between the group's { and }
BlockMatch(content, block_type) ==
  LET fence == IF block_type = "tool_call" THEN "OT" ELSE "OD"
      starts == {i \in 1..(Len(content) - 1) :
                   /\ content[i].t = fence
                   /\ content[i + 1].t = "LB"
                   /\ GroupEnds(content, i) # {}}
  IN IF starts = {} THEN [matched |-> FALSE, body |-> <<>>]
     ELSE LET i == MinOf(starts)
              j == MinOf(GroupEnds(content, i))
          IN [matched |-> TRUE, body |-> SubSeq(content, i + 2, j - 1)]

\* json.loads accepts the group iff all between { and } are members
LoadsOk(body) == \A n \in DOMAIN body : body[n].t = "M"

\* a parser that skips what it cannot read instead of giving the block up
\* (C8 tells it from _parse_block)
_parse_block_Lenient(content, block_type) ==
  LET m == BlockMatch(content, block_type)
  IN IF ~m.matched THEN NoBlock
     ELSE [found |-> TRUE,
           obj |-> DictOf(FilterIdx(m.body, {n \in DOMAIN m.body : m.body[n].t = "M"}))]

\* Agent._parse_block: None when the pattern does not match or json.loads
\* raises JSONDecodeError
_parse_block(content, block_type) ==
  LET m == BlockMatch(content, block_type)
  IN IF ~m.matched THEN NoBlock
     ELSE IF LoadsOk(m.body) THEN [found |-> TRUE, obj |-> DictOf(m.body)]
     ELSE NoBlock

\* `if tool_call:` -- None and the empty dict are both falsy
BlockTruthy(b) == b.found /\ b.obj # <<>>

-----------------------------------------------------------------------------
(* LocalMemory: the session store                                          *)
(* memory.sessions is the dict _sessions in insertion order.               *)
(***************************************************************************)

SessionIndex(mem, session_id) ==
  LET at == {i \in DOMAIN mem.sessions : mem.sessions[i].session_id = session_id}
  IN IF at = {} THEN 0 ELSE MinOf(at)

HasSession(mem, session_id) == SessionIndex(mem, session_id) # 0

\* a sort by updated_at with the newest first (C10 tells it from SortsBefore)
SortsBefore_NewestFirst(sessions, j, i) ==
  \/ sessions[j].updated_at > sessions[i].updated_at
  \/ (sessions[j].updated_at = sessions[i].updated_at /\ j < i)

\* sorted(..., key=updated_at) is stable: ties keep dict order
SortsBefore(sessions, j, i) ==
  \/ sessions[j].updated_at < sessions[i].updated_at
  \/ (sessions[j].updated_at = sessions[i].updated_at /\ j < i)

sessions_to_remove(mem) == Max(1, mem.max_sessions \div 10)

\* a guard that purges nothing (C31 tells it from _cleanup_sessions_if_needed)
_cleanup_sessions_if_needed_Never(mem) == mem

_cleanup_sessions_if_needed(mem) ==
  IF Len(mem.sessions) >= mem.max_sessions
  THEN LET rank(i) == Cardinality({j \in DOMAIN mem.sessions :
                                     SortsBefore(mem.sessions, j, i)})
           keep == {i \in DOMAIN mem.sessions : rank(i) >= sessions_to_remove(mem)}
       IN [mem EXCEPT !.sessions = FilterIdx(mem.sessions, keep)]
  ELSE mem

\* a trim to half of the cap (C9 tells it from events_to_keep)
events_to_keep_Half(mem) == mem.max_events_per_session \div 2

\* int(max_events_per_session * 0.8)
events_to_keep(mem) == (mem.max_events_per_session * 8) \div 10

_cleanup_events_if_needed(mem, events) ==
  IF Len(events) >= mem.max_events_per_session
  THEN SliceLast(events, events_to_keep(mem))
  ELSE events

\* the id create_session returns: the given one, or f"session_{uuid4().hex[:12]}"
created_id(session_id, generated) ==
  IF session_id = "" THEN "session_" \o ToString(generated) ELSE session_id

\* LocalMemory.create_session; session_id "" is None, generated the uuid drawn
create_session_as(mem, app_name, user_id, session_id, now) ==
  LET session == [session_id |-> session_id, user_id |-> user_id,
                  app_name |-> app_name, events |-> <<>>,
                  created_at |-> now, updated_at |-> now]
      cleaned == _cleanup_sessions_if_needed(mem)
      at == SessionIndex(cleaned, session_id)
  IN IF at = 0
     THEN [cleaned EXCEPT !.sessions = Append(cleaned.sessions, session)]
     ELSE [cleaned EXCEPT !.sessions[at] = session]

create_session(mem, app_name, user_id, session_id, now, generated) ==
  create_session_as(mem, app_name, user_id, created_id(session_id, generated), now)

\* a get-or-create that creates whether or not the id is held (C11 tells it
\* from get_or_create_session)
get_or_create_session_Always(mem, session_id, app_name, user_id, now, generated) ==
  create_session(mem, app_name, user_id, session_id, now, generated)

get_or_create_session(mem, session_id, app_name, user_id, now, generated) ==
  IF ~HasSession(mem, session_id)
  THEN create_session(mem, app_name, user_id, session_id, now, generated)
  ELSE mem

\* the bool add_event returns
add_event_result(mem, session_id) == HasSession(mem, session_id)

\* an add_event that puts the event before the ones held (C14 tells it from
\* add_event)
add_event_Prepend(mem, session_id, event, now) ==
  LET at == SessionIndex(mem, session_id)
  IN IF at = 0 THEN mem
     ELSE [mem EXCEPT !.sessions[at].events = <<event>> \o @,
                      !.sessions[at].updated_at = now]

\* an add_event that creates the session it does not find (C39 tells it from
\* add_event)
add_event_Creating(mem, session_id, event, now) ==
  LET held == IF HasSession(mem, session_id) THEN mem
              ELSE create_session_as(mem, "agent", "user", session_id, now)
      at == SessionIndex(held, session_id)
  IN [held EXCEPT !.sessions[at].events = Append(@, event),
                  !.sessions[at].updated_at = now]

\* an add_event that appends the event twice (C33 tells it from add_event)
add_event_Twice(mem, session_id, event, now) ==
  LET at == SessionIndex(mem, session_id)
  IN IF at = 0 THEN mem
     ELSE [mem EXCEPT !.sessions[at].events = @ \o <<event, event>>,
                      !.sessions[at].updated_at = now]

add_event(mem, session_id, event, now) ==
  LET at == SessionIndex(mem, session_id)
  IN IF at = 0 THEN mem
     ELSE [mem EXCEPT !.sessions[at].events =
                         Append(_cleanup_events_if_needed(mem, @), event),
                      !.sessions[at].updated_at = now]

\* LocalMemory.get_session_events; event_types is <<>> for None and <<l>> for
\* the list l, and "if event_types:" is false for None and for the empty list
get_session_events(mem, session_id, event_types) ==
  LET at == SessionIndex(mem, session_id)
  IN IF at = 0 THEN <<>>
     ELSE LET events == mem.sessions[at].events
          IN IF event_types # <<>> /\ event_types[1] # <<>>
             THEN SelectSeq(events,
                            LAMBDA e : \E k \in DOMAIN event_types[1] :
                                         event_types[1][k] = e.event_type)
             ELSE events

create_event(event_type, content, id, now) ==
  [event_id |-> id, timestamp |-> now, event_type |-> event_type, content |-> content]

delete_session(mem, session_id) ==
  [mem EXCEPT !.sessions =
     FilterIdx(@, {i \in DOMAIN @ : @[i].session_id # session_id})]

\* cleanup_old_sessions; the clock counts hours
cleanup_old_sessions(mem, max_age_hours, now) ==
  LET cutoff_time == now - max_age_hours
  IN [mem EXCEPT !.sessions =
        FilterIdx(@, {i \in DOMAIN @ : ~(@[i].updated_at < cutoff_time)})]

SessionIds(mem) == {mem.sessions[i].session_id : i \in DOMAIN mem.sessions}

-----------------------------------------------------------------------------
(* KaosOtelManager: the span stack of one request's execution context      *)
(* q is a request record; q.stack is the ContextVar list _span_stack.      *)
(***************************************************************************)

\* a begin that pushes the span whether or not tracing is initialised (C28
\* tells it from span_begin)
span_begin_Always(q, name, metric_kind) ==
  [q EXCEPT !.stack = Append(@, [name |-> name, metric_kind |-> metric_kind,
                                 ended |-> FALSE])]

span_begin(q, name, metric_kind) ==
  IF ~otel_initialized THEN q
  ELSE [q EXCEPT !.stack = Append(@, [name |-> name, metric_kind |-> metric_kind,
                                      ended |-> FALSE])]

\* step spans are begun without a metric_kind ("" here) and record no metric
_record_metric(metrics, metric_kind, success) ==
  IF metric_kind = "" THEN metrics
  ELSE Append(metrics, [kind |-> metric_kind, success |-> success])

span_success(q) ==
  IF ~otel_initialized THEN q
  ELSE IF q.stack = <<>> THEN q
  ELSE LET state == q.stack[Len(q.stack)]
       IN IF state.ended THEN q
          ELSE [q EXCEPT !.metrics = _record_metric(@, state.metric_kind, TRUE),
                         !.spans_ended = Append(@, [name |-> state.name, success |-> TRUE]),
                         !.stack = SubSeq(@, 1, Len(@) - 1)]

span_failure(q) ==
  IF ~otel_initialized THEN q
  ELSE IF q.stack = <<>> THEN q
  ELSE LET state == q.stack[Len(q.stack)]
       IN IF state.ended THEN q
          ELSE [q EXCEPT !.metrics = _record_metric(@, state.metric_kind, FALSE),
                         !.spans_ended = Append(@, [name |-> state.name, success |-> FALSE]),
                         !.stack = SubSeq(@, 1, Len(@) - 1)]

-----------------------------------------------------------------------------
(* init_otel and is_otel_enabled: the process-wide initialisation          *)
(* env is os.environ restricted to the three variables init_otel reads; "" *)
(* is a variable that is not set.                                          *)
(***************************************************************************)

\* no variable is set
NoEnviron == [OTEL_SDK_DISABLED |-> "", OTEL_SERVICE_NAME |-> "",
              OTEL_EXPORTER_OTLP_ENDPOINT |-> ""]

\* the environment of a process that exports its telemetry
Exporting == [OTEL_SDK_DISABLED |-> "", OTEL_SERVICE_NAME |-> "agent",
              OTEL_EXPORTER_OTLP_ENDPOINT |-> "http://collector:4317"]

\* the values of OTEL_SDK_DISABLED that init_otel takes for "disabled"
Disabling == {"true", "1", "yes"}

\* the values pydantic reads as a bool; OtelConfig() raises on any other
BoolWords == {"true", "false", "1", "0", "yes", "no", "on", "off", "t", "f", "y", "n"}

\* an init_otel that sets the SDK up whether or not it was set up before (C29
\* tells it from init_otel)
init_otel_Again(initialized, env, service_name) ==
  [initialized |-> TRUE, env |-> env, result |-> TRUE, setup |-> TRUE]

\* init_otel, lines 184-262: the flag and the environment it leaves, what it
\* returns, and whether it set the SDK up
init_otel(initialized, env, service_name) ==
  LET env1 == IF service_name # "" /\ env.OTEL_SERVICE_NAME = ""
              THEN [env EXCEPT !.OTEL_SERVICE_NAME = service_name]
              ELSE env
      Refused(e) == [initialized |-> initialized, env |-> e, result |-> FALSE,
                     setup |-> FALSE]
  IN IF initialized THEN Refused(env)
     ELSE IF env.OTEL_SDK_DISABLED \in Disabling THEN Refused(env)
     ELSE IF env1.OTEL_SERVICE_NAME = "" \/ env1.OTEL_EXPORTER_OTLP_ENDPOINT = ""
     THEN Refused(env1)
     ELSE IF env1.OTEL_SDK_DISABLED \notin BoolWords \cup {""}
     THEN \* OtelConfig() raises a validation error, lines 220-223
          Refused(env1)
     ELSE [initialized |-> TRUE, env |-> env1, result |-> TRUE, setup |-> TRUE]

is_otel_enabled(initialized) == initialized

-----------------------------------------------------------------------------
(* The environment the agent is configured with                            *)
(***************************************************************************)

Requests == {"r1", "r2"}

\* what each tool server exposes, in the order of Agent.mcp_clients
ServerTools == <<{"calculator"}, {"calculator", "echo"}>>

\* what MCPClient.call_tool returns for a successful call
ToolResult == [kind |-> "obj", s |-> "sum:8"]
\* what a peer answers
PeerResponse == "done"
\* the names of Agent.sub_agents
ConfiguredPeers == {"worker"}

\* LocalMemory() as Agent.__init__ builds it
DefaultMaxSessions == 1000
DefaultMaxEvents == 500

Exc(type, msg) == [type |-> type, msg |-> msg]
NoExc == Exc("", "")
Msg(role, content) == [role |-> role, content |-> content]

MaxStepsMsg == <<W("Reached maximum reasoning steps")>>
Apology(e) == <<W("Sorry, I encountered an error:"), W(e.msg)>>

\* str.split(): the maximal runs of non-blank text; a fence line is a word of
\* its own
Split(content) ==
  LET F[i \in 0..Len(content)] ==
        IF i = 0 THEN [words |-> <<>>, cur |-> <<>>]
        ELSE LET p == F[i - 1]
                 tok == content[i]
                 flushed == IF p.cur = <<>> THEN p.words ELSE Append(p.words, p.cur)
             IN IF tok.t = "S" THEN [words |-> flushed, cur |-> <<>>]
                ELSE IF IsFence(tok) THEN [words |-> Append(flushed, <<tok>>), cur |-> <<>>]
                ELSE [words |-> p.words, cur |-> Append(p.cur, tok)]
      last == F[Len(content)]
  IN IF last.cur = <<>> THEN last.words ELSE Append(last.words, last.cur)

-----------------------------------------------------------------------------
(* Agent: one process_message call per request r                           *)
(* S is the whole state as a record; each operator is a stretch of code    *)
(* and returns the state it leaves.                                        *)
(*                                                                         *)
(* History kept per request for stating properties: logged (the events it  *)
(* asked the store to add), outputs (the model outputs it received), trace *)
(* (the model invocations "model", provider calls "tool", peer requests    *)
(* "peer" and event types, in order), step_error (the exception that       *)
(* escaped a step), chunks (what the consumer received), n_model, n_tool,  *)
(* n_peer and n_fetch (calls made to each collaborator).                   *)
(***************************************************************************)

IdleReq == [pc |-> "idle", message |-> [is_str |-> TRUE, text |-> <<>>, list |-> <<>>],
            session_id |-> "", given |-> "", stream |-> FALSE, messages |-> <<>>,
            step |-> 0,
            content |-> <<>>, idx |-> 0, tool_name |-> "", agent_name |-> "",
            sent |-> <<>>, pending |-> <<>>, after |-> "", chunks |-> <<>>,
            stack |-> <<>>, metrics |-> <<>>, spans_ended |-> <<>>,
            logged |-> <<>>, n_model |-> 0, n_tool |-> 0, n_peer |-> 0,
            n_fetch |-> 0, outcome |-> "", raised |-> FALSE, orphaned |-> FALSE,
            outputs |-> <<>>, trace |-> <<>>, step_error |-> NoExc]

WithReq(S, r, q) == [S EXCEPT !.req[r] = q]

\* a logging that adds the event to the first session of the store instead
\* (C16 tells it from Log)
Log_FirstSession(S, r, event_type, content) ==
  LET sid == IF S.memory.sessions = <<>> THEN S.req[r].session_id
             ELSE S.memory.sessions[1].session_id
      ev == create_event(event_type, content, S.uuid, S.clock)
  IN [S EXCEPT !.memory = add_event(@, sid, ev, S.clock),
               !.uuid = @ + 1,
               !.req[r].logged = Append(@, [event_type |-> event_type,
                                            event_id |-> S.uuid, added |-> TRUE]),
               !.req[r].trace = Append(@, event_type)]

\* memory.create_event followed by memory.add_event on the request's session
Log(S, r, event_type, content) ==
  LET sid == S.req[r].session_id
      ev == create_event(event_type, content, S.uuid, S.clock)
      ok == add_event_result(S.memory, sid)
  IN [S EXCEPT !.memory = add_event(@, sid, ev, S.clock),
               !.uuid = @ + 1,
               !.req[r].logged = Append(@, [event_type |-> event_type,
                                            event_id |-> S.uuid, added |-> ok]),
               !.req[r].trace = Append(@, event_type)]

\* `yield chunk`: the chunk is handed to the consumer and the generator waits
Yield(S, r, chunk, rest, after) ==
  WithReq(S, r, [S.req[r] EXCEPT !.pc = "yield", !.chunks = Append(@, chunk),
                                 !.pending = rest, !.after = after])

Finish(S, r, outcome) ==
  WithReq(S, r, [S.req[r] EXCEPT !.pc = "done", !.outcome = outcome])

\* a close that the `except Exception` clause of process_message takes for
\* an error (C15 tells it from GeneratorExit)
GeneratorExit_Caught(S, r) ==
  LET S1 == Log(S, r, "error", <<W("Error processing message:")>>)
  IN WithReq(S1, r, [S1.req[r] EXCEPT !.pc = "done", !.outcome = "apology"])

\* the process_message generator is closed while it waits at its yield:
\* GeneratorExit is raised there; it is no Exception, so no except clause
\* takes it and only the finally clause of process_message runs (lines
\* 397-399, unless the yield is the apology's).  The async for of line 386
\* does not close the _agentic_loop generator: when its yield is in a step it
\* stays suspended there, its step span open, until the event loop's
\* finalizer closes it.  The chunks not yet handed over stay in q.pending
GeneratorExit(S, r) ==
  LET q == S.req[r]
      ended == IF q.after \in {"final", "maxsteps"} THEN span_success(q) ELSE q
  IN WithReq(S, r, [ended EXCEPT !.pc = "done", !.outcome = q.after,
                                 !.orphaned = (q.after = "final")])

\* the event loop's finalizer closes the _agentic_loop generator that
\* process_message left suspended at its yield: GeneratorExit is raised
\* there, and the finally clause of the step, lines 501-503, ends the span on
\* top of the stack
_agentic_loop_aclose(S, r) ==
  WithReq(S, r, [span_success(S.req[r]) EXCEPT !.orphaned = FALSE])

\* an except clause that apologises without recording the error (C2 tells it
\* from ProcessExcept)
ProcessExcept_Unrecorded(S, r, e) ==
  Yield(WithReq(S, r, span_failure(S.req[r])), r, Apology(e), <<>>, "apology")

\* process_message, lines 389-396: the except clause of the request
ProcessExcept(S, r, e) ==
  LET S1 == WithReq(S, r, span_failure(S.req[r]))
      S2 == Log(S1, r, "error", <<W("Error processing message:"), W(e.msg)>>)
  IN Yield(S2, r, Apology(e), <<>>, "apology")

\* _agentic_loop, lines 498-501: the except clause of a step
StepExcept(S, r, e) ==
  ProcessExcept(WithReq(S, r, [span_failure(S.req[r]) EXCEPT !.step_error = e]), r, e)

\* a loop head that admits one iteration more (C3 tells it from LoopTop)
LoopTop_OneMore(S, r) ==
  LET q == S.req[r]
  IN IF q.step <= config.max_steps
     THEN WithReq(S, r, [span_begin(span_begin(q, "step", ""), "model", "model")
                           EXCEPT !.pc = "model", !.n_model = @ + 1,
                                  !.trace = Append(@, "model")])
     ELSE Yield(S, r, MaxStepsMsg, <<>>, "maxsteps")

\* _agentic_loop, lines 408-419 and 506-509: the head of the for loop
LoopTop(S, r) ==
  LET q == S.req[r]
  IN IF q.step < config.max_steps
     THEN WithReq(S, r, [span_begin(span_begin(q, "step", ""), "model", "model")
                           EXCEPT !.pc = "model", !.n_model = @ + 1,
                                  !.trace = Append(@, "model")])
     ELSE Yield(S, r, MaxStepsMsg, <<>>, "maxsteps")

\* `continue`: the step's finally clause, then the next iteration
Continue(S, r) ==
  LoopTop(WithReq(S, r, [span_success(S.req[r]) EXCEPT !.step = @ + 1]), r)

\* both messages a handled step appends to the working conversation
Fold(S, r, text) ==
  WithReq(S, r, [S.req[r] EXCEPT !.messages =
                   @ \o <<Msg("assistant", S.req[r].content), Msg("user", text)>>])

\* a handler that lets the failure of a tool leave the step (C20 tells it
\* from ToolExcept)
ToolExcept_Escapes(S, r, e) == StepExcept(S, r, e)

\* _agentic_loop, lines 447-450
ToolExcept(S, r, e) ==
  Continue(Fold(S, r, <<W("Tool execution failed:"), W(e.msg)>>), r)

\* _execute_tool, lines 557-561, then the handler of the loop
ExecuteToolExcept(S, r, e) ==
  ToolExcept(WithReq(S, r, span_failure(S.req[r])), r, e)

\* MCPClient.call_tool up to its first await
call_tool(S, r, i) ==
  WithReq(S, r, [S.req[r] EXCEPT !.idx = i, !.n_tool = @ + 1,
                   !.trace = Append(@, "tool"),
                   !.pc = IF S.mcp_clients[i]._active THEN "tool_call" ELSE "tool_init"])

\* an executor that calls the last provider that lists the tool (C25 tells it
\* from _execute_tool)
_execute_tool_LastProvider(S, r, tool_name, tool_args) ==
  LET S1 == WithReq(S, r, [span_begin(S.req[r], "tool", "tool")
                             EXCEPT !.tool_name = tool_name.s])
      having == {i \in DOMAIN S.mcp_clients :
                   tool_name.kind = "str" /\ tool_name.s \in S.mcp_clients[i]._tools}
  IN IF tool_args.kind # "obj"
     THEN ToolExcept(S1, r, Exc("AttributeError", "no attribute keys"))
     ELSE IF ~Hashable(tool_name)
     THEN ExecuteToolExcept(S1, r, Exc("TypeError", "unhashable type"))
     ELSE IF having = {}
     THEN ExecuteToolExcept(S1, r, Exc("ValueError", "Tool not found"))
     ELSE call_tool(S1, r, CHOOSE i \in having : \A j \in having : j <= i)

\* _execute_tool, lines 537-556, up to the await of call_tool
_execute_tool(S, r, tool_name, tool_args) ==
  LET S1 == WithReq(S, r, [span_begin(S.req[r], "tool", "tool")
                             EXCEPT !.tool_name = tool_name.s])
      having == {i \in DOMAIN S.mcp_clients :
                   tool_name.kind = "str" /\ tool_name.s \in S.mcp_clients[i]._tools}
  IN IF tool_args.kind # "obj"
     THEN \* line 544, before the try: tool_args.keys() raises, the span stays open
          ToolExcept(S1, r, Exc("AttributeError", "no attribute keys"))
     ELSE IF ~Hashable(tool_name)
     THEN ExecuteToolExcept(S1, r, Exc("TypeError", "unhashable type"))
     ELSE IF having = {}
     THEN ExecuteToolExcept(S1, r, Exc("ValueError", "Tool not found"))
     ELSE call_tool(S1, r, MinOf(having))

\* a tool branch that does not record the call (C4 tells it from ToolBranch)
ToolBranch_Unrecorded(S, r, tool_call) ==
  LET tool_name == DictGet(tool_call, "tool", Str(""))
      tool_args == DictGet(tool_call, "arguments", Obj)
  IN IF ~Truthy(tool_name)
     THEN ToolExcept(S, r, Exc("ValueError", "Tool name not specified"))
     ELSE _execute_tool(S, r, tool_name, tool_args)

\* _agentic_loop, lines 424-434
ToolBranch(S, r, tool_call) ==
  LET S1 == Log(S, r, "tool_call", tool_call)
      tool_name == DictGet(tool_call, "tool", Str(""))
      tool_args == DictGet(tool_call, "arguments", Obj)
  IN IF ~Truthy(tool_name)
     THEN ToolExcept(S1, r, Exc("ValueError", "Tool name not specified"))
     ELSE _execute_tool(S1, r, tool_name, tool_args)

\* a loop that returns the tool's result as its answer instead of going on
\* (C1 tells it from ToolReturned)
ToolReturned_AsAnswer(S, r, tool_result) ==
  LET S1 == WithReq(S, r, span_success(S.req[r]))
      S2 == Log(S1, r, "tool_result",
                <<Mem("tool", Str(S.req[r].tool_name)), Mem("result", tool_result)>>)
  IN Yield(S2, r, <<Mem("result", tool_result)>>, <<>>, "final")

\* _execute_tool's return, then _agentic_loop lines 436-445
ToolReturned(S, r, tool_result) ==
  LET S1 == WithReq(S, r, span_success(S.req[r]))
      S2 == Log(S1, r, "tool_result",
                <<Mem("tool", Str(S.req[r].tool_name)), Mem("result", tool_result)>>)
  IN Continue(Fold(S2, r, <<W("Tool result:"), Mem("result", tool_result)>>), r)

\* _execute_delegation's return, then _agentic_loop lines 476-480
DelegationReturned(S, r, delegation_result) ==
  LET S1 == WithReq(S, r, span_success(S.req[r]))
  IN Continue(Fold(S1, r, <<W("Agent response:")>> \o delegation_result), r)

\* a delegation whose failure escapes the step (C6 tells it from
\* DelegationFailed)
DelegationFailed_Escapes(S, r, e) == StepExcept(S, r, e)

\* delegate_to_sub_agent, lines 636-647: the peer raised RuntimeError
DelegationFailed(S, r, e) ==
  LET S1 == Log(S, r, "delegation_error",
                <<Mem("agent", Str(S.req[r].agent_name)), Mem("error", Str(e.msg))>>)
  IN DelegationReturned(S1, r, <<W("[Delegation failed:"), W(e.msg), W("]")>>)

\* delegate_to_sub_agent, lines 627-634: the peer answered
DelegationAnswered(S, r, response) ==
  LET S1 == Log(S, r, "delegation_response",
                <<Mem("agent", Str(S.req[r].agent_name)), Mem("response", Str(response))>>)
  IN DelegationReturned(S1, r, <<W(response)>>)

\* an invoke that sends the request without looking at the handle (C17 tells
\* it from peer_process_message)
peer_process_message_Sends(S, r, name) ==
  WithReq(S, r, [S.req[r] EXCEPT !.pc = "deleg_req", !.n_peer = @ + 1,
                                 !.trace = Append(@, "peer")])

\* RemoteAgent.process_message up to its first await
peer_process_message(S, r, name) ==
  IF S.sub_agents[name]._active
  THEN WithReq(S, r, [S.req[r] EXCEPT !.pc = "deleg_req", !.n_peer = @ + 1,
                                      !.trace = Append(@, "peer")])
  ELSE WithReq(S, r, [S.req[r] EXCEPT !.pc = "deleg_init", !.n_fetch = @ + 1])

\* a delegation that does not record its request (C5 tells it from
\* delegate_to_sub_agent)
delegate_to_sub_agent_Unrecorded(S, r, agent_name, task, context_messages) ==
  LET messages == SliceLast(context_messages, config.memory_context_limit)
                    \o <<Msg("task-delegation", <<Mem("task", task)>>)>>
      S2 == WithReq(S, r, [S.req[r] EXCEPT !.agent_name = agent_name.s,
                                           !.sent = messages])
  IN peer_process_message(S2, r, agent_name.s)

\* delegate_to_sub_agent, lines 606-625, for a configured peer
delegate_to_sub_agent(S, r, agent_name, task, context_messages) ==
  LET S1 == Log(S, r, "delegation_request",
                <<Mem("agent", agent_name), Mem("task", task)>>)
      messages == SliceLast(context_messages, config.memory_context_limit)
                    \o <<Msg("task-delegation", <<Mem("task", task)>>)>>
      S2 == WithReq(S1, r, [S1.req[r] EXCEPT !.agent_name = agent_name.s,
                                             !.sent = messages])
  IN peer_process_message(S2, r, agent_name.s)

\* _execute_delegation, lines 574-596, with the handlers of the loop
_execute_delegation(S, r, agent_name, task, context_messages) ==
  LET S1 == WithReq(S, r, span_begin(S.req[r], "delegation", "delegation"))
      Failed == WithReq(S1, r, span_failure(S1.req[r]))
  IN IF task.kind = "num"
     THEN \* line 581, before the try: len(task) raises, the span stays open
          StepExcept(S1, r, Exc("TypeError", "no len"))
     ELSE IF ~Hashable(agent_name)
     THEN StepExcept(Failed, r, Exc("TypeError", "unhashable type"))
     ELSE IF ~(agent_name.kind = "str" /\ agent_name.s \in DOMAIN S.sub_agents)
     THEN \* ValueError: lines 482-485
          Continue(Fold(Failed, r, <<W("Delegation failed:"), W("Sub-agent not found")>>), r)
     ELSE delegate_to_sub_agent(S1, r, agent_name, task, context_messages)

\* _agentic_loop, lines 455-474
DelegationBranch(S, r, delegation) ==
  LET agent_name == DictGet(delegation, "agent", Str(""))
      task == DictGet(delegation, "task", Str(""))
      messages == S.req[r].messages
      context_messages ==
        FilterIdx(messages, {i \in DOMAIN messages : messages[i].role # "system"})
  IN IF ~Truthy(agent_name) \/ ~Truthy(task)
     THEN Continue(Fold(S, r, <<W("Invalid delegation: missing 'agent' or 'task'")>>), r)
     ELSE _execute_delegation(S, r, agent_name, task, context_messages)

\* a loop without the `return` after the final answer, which goes on to the
\* step-limit message (C38 tells it from ReturnFinal)
ReturnFinal_FallsThrough(S, r) ==
  Yield(WithReq(S, r, span_success(S.req[r])), r, MaxStepsMsg, <<>>, "maxsteps")

\* `return` from the loop, then the finally clause of process_message
ReturnFinal(S, r) ==
  Finish(WithReq(S, r, span_success(span_success(S.req[r]))), r, "final")

\* a final response that is emitted whole even to a streaming consumer (C23
\* tells it from FinalResponse)
FinalResponse_Whole(S, r) ==
  Yield(Log(S, r, "agent_response", S.req[r].content), r, S.req[r].content, <<>>, "final")

\* a final response that is recorded only when it is not streamed (C37 tells
\* it from FinalResponse)
FinalResponse_StreamUnrecorded(S, r) ==
  LET content == S.req[r].content
      words == Split(content)
  IN IF S.req[r].stream
     THEN IF words = <<>> THEN ReturnFinal(S, r)
          ELSE Yield(S, r, Append(words[1], Tok("S")), Tail(words), "final")
     ELSE Yield(Log(S, r, "agent_response", content), r, content, <<>>, "final")

\* _agentic_loop, lines 487-496
FinalResponse(S, r) ==
  LET content == S.req[r].content
      S1 == Log(S, r, "agent_response", content)
      words == Split(content)
  IN IF S.req[r].stream
     THEN IF words = <<>> THEN ReturnFinal(S1, r)
          ELSE Yield(S1, r, Append(words[1], Tok("S")), Tail(words), "final")
     ELSE Yield(S1, r, content, <<>>, "final")

\* a loop that looks for a delegate block before a tool_call block (C34 tells
\* it from AfterModel)
AfterModel_DelegateFirst(S, r, content) ==
  LET S1 == WithReq(S, r, [span_success(S.req[r]) EXCEPT !.content = content,
                                                        !.outputs = Append(@, content)])
      tool_call == _parse_block(content, "tool_call")
      delegation == _parse_block(content, "delegate")
  IN IF BlockTruthy(delegation) THEN DelegationBranch(S1, r, delegation.obj)
     ELSE IF BlockTruthy(tool_call) THEN ToolBranch(S1, r, tool_call.obj)
     ELSE FinalResponse(S1, r)

\* _call_model returned: its finally clause, then _agentic_loop lines 421-496
AfterModel(S, r, content) ==
  LET S1 == WithReq(S, r, [span_success(S.req[r]) EXCEPT !.content = content,
                                                        !.outputs = Append(@, content)])
      tool_call == _parse_block(content, "tool_call")
      delegation == _parse_block(content, "delegate")
  IN IF BlockTruthy(tool_call) THEN ToolBranch(S1, r, tool_call.obj)
     ELSE IF BlockTruthy(delegation) THEN DelegationBranch(S1, r, delegation.obj)
     ELSE FinalResponse(S1, r)

-----------------------------------------------------------------------------
(* process_message from its call to the loop                               *)
(***************************************************************************)

\* an intake that takes every message of the list for a user message (C24
\* tells it from HandleList)
HandleList_AllAsUser(S, r, list) ==
  LET F[i \in 0..Len(list)] ==
        IF i = 0 THEN S
        ELSE LET P == F[i - 1]
                 appended == WithReq(P, r, [P.req[r] EXCEPT !.messages =
                                              Append(@, Msg("user", list[i].content))])
             IN Log(appended, r, "user_message", list[i].content)
  IN F[Len(list)]

\* process_message, lines 362-383, for the list form of the input
HandleList(S, r, list) ==
  LET F[i \in 0..Len(list)] ==
        IF i = 0 THEN S
        ELSE LET P == F[i - 1]
                 msg == list[i]
                 appended == WithReq(P, r, [P.req[r] EXCEPT !.messages =
                                              Append(@, Msg(IF msg.role = "task-delegation"
                                                            THEN "user" ELSE msg.role,
                                                            msg.content))])
             IN IF msg.role = "system" THEN P
                ELSE IF msg.role = "task-delegation"
                THEN Log(appended, r, "task_delegation_received", msg.content)
                ELSE IF msg.role = "user"
                THEN Log(appended, r, "user_message", msg.content)
                ELSE appended
  IN F[Len(list)]

\* process_message, lines 349-355: the first system message of a list input
user_system_prompt(message) ==
  LET at == {i \in DOMAIN message.list : message.list[i].role = "system"}
  IN IF message.is_str \/ at = {} THEN <<>> ELSE message.list[MinOf(at)].content

\* process_message, lines 359-386: the prompt is built, the input is taken in
\* and the loop is entered
AfterPrompt(S, r) ==
  LET message == S.req[r].message
      system_prompt == <<W("## Agent System Prompt")>> \o user_system_prompt(message)
      S1 == WithReq(S, r, [S.req[r] EXCEPT !.messages = <<Msg("system", system_prompt)>>])
      S2 == IF message.is_str
            THEN LET L1 == Log(S1, r, "user_message", message.text)
                 IN WithReq(L1, r, [L1.req[r] EXCEPT !.messages =
                                      Append(@, Msg("user", message.text))])
            ELSE HandleList(S1, r, message.list)
  IN LoopTop(S2, r)

\* _get_agents_prompt: the loop over sub_agents.values() from the j-th peer on
PromptAgents(S, r, j) ==
  LET inactive == {n \in j..Len(config.peer_order) :
                     ~S.sub_agents[config.peer_order[n]]._active}
  IN IF inactive = {} THEN AfterPrompt(S, r)
     ELSE WithReq(S, r, [S.req[r] EXCEPT !.pc = "peer_init", !.idx = MinOf(inactive),
                                         !.n_fetch = @ + 1])

\* _get_tools_prompt: the loop over mcp_clients from the i-th client on
PromptTools(S, r, i) ==
  LET inactive == {n \in i..Len(S.mcp_clients) : ~S.mcp_clients[n]._active}
  IN IF inactive = {} THEN PromptAgents(S, r, 1)
     ELSE WithReq(S, r, [S.req[r] EXCEPT !.pc = "mcp_init", !.idx = MinOf(inactive)])

\* a start that opens a new session whether or not an id is given (C13 tells
\* it from StartCall)
StartCall_Unnamed(S, r, message, session_id, stream) ==
  LET S1 == [S EXCEPT !.memory = create_session(@, "agent", "user", "", S.clock, S.uuid),
                      !.uuid = @ + 1,
                      !.req[r] = [span_begin(IdleReq, "request", "request")
                                    EXCEPT !.message = message,
                                           !.session_id = created_id("", S.uuid),
                                           !.given = session_id, !.stream = stream]]
  IN PromptTools(S1, r, 1)

\* process_message, lines 327-358; given is the session_id argument
StartCall(S, r, message, session_id, stream) ==
  LET sid == created_id(session_id, S.uuid)
      mem == IF session_id # ""
             THEN get_or_create_session(S.memory, session_id, "agent", "user", S.clock,
                                        S.uuid)
             ELSE create_session(S.memory, "agent", "user", "", S.clock, S.uuid)
      S1 == [S EXCEPT !.memory = mem,
                      !.uuid = IF session_id = "" THEN @ + 1 ELSE @,
                      !.req[r] = [span_begin(IdleReq, "request", "request")
                                    EXCEPT !.message = message, !.session_id = sid,
                                           !.given = session_id, !.stream = stream]]
  IN PromptTools(S1, r, 1)

\* MCPClient._init, lines 83-103
mcp_init(clients, i, ok) ==
  IF ok THEN [clients EXCEPT ![i] = [_active |-> TRUE, _tools |-> ServerTools[i]]]
  ELSE [clients EXCEPT ![i]._active = FALSE]

\* What a peer handle went through is kept with it: last is the operation on
\* it that completed last (the fetch of its card or the send of an
\* invocation), set_by the last one that assigned _active, and invoked how the
\* RemoteAgent.process_message call that completed last ended.
NoOutcome == [op |-> "", ok |-> FALSE]
Outcome(op, ok) == [op |-> op, ok |-> ok]

\* RemoteAgent.__init__: the handle of a new agent
Inactive(names) ==
  [n \in names |-> [_active |-> FALSE, agent_card |-> FALSE, last |-> NoOutcome,
                    set_by |-> NoOutcome, invoked |-> ""]]

\* the handle after a card fetch that succeeded
Discovered(names) ==
  [n \in names |-> [_active |-> TRUE, agent_card |-> TRUE, last |-> Outcome("fetch", TRUE),
                    set_by |-> Outcome("fetch", TRUE), invoked |-> ""]]

\* a discovery that never marks the handle active (C7 tells it from peer_init)
peer_init_Inactive(agents, name, ok) ==
  IF ok THEN [agents EXCEPT ![name].agent_card = TRUE,
                            ![name].last = Outcome("fetch", TRUE),
                            ![name].set_by = Outcome("fetch", TRUE)]
  ELSE [agents EXCEPT ![name]._active = FALSE,
                      ![name].last = Outcome("fetch", FALSE),
                      ![name].set_by = Outcome("fetch", FALSE)]

\* RemoteAgent._init, lines 105-124
peer_init(agents, name, ok) ==
  IF ok THEN [agents EXCEPT ![name]._active = TRUE, ![name].agent_card = TRUE,
                            ![name].last = Outcome("fetch", TRUE),
                            ![name].set_by = Outcome("fetch", TRUE)]
  ELSE [agents EXCEPT ![name]._active = FALSE,
                      ![name].last = Outcome("fetch", FALSE),
                      ![name].set_by = Outcome("fetch", FALSE)]

\* RemoteAgent.process_message, lines 142-144: its discovery failed and it
\* raises
peer_unavailable(agents, name) ==
  [peer_init(agents, name, FALSE) EXCEPT ![name].invoked = "failed"]

\* a request whose failure marks every handle inactive (C19 tells it from
\* peer_request)
peer_request_AllPeers(agents, name, ok) ==
  [n \in DOMAIN agents |->
     IF ok THEN [agents[n] EXCEPT !.last = IF n = name THEN Outcome("send", TRUE) ELSE @,
                                  !.invoked = IF n = name THEN "ok" ELSE @]
     ELSE [agents[n] EXCEPT !._active = FALSE,
                            !.last = IF n = name THEN Outcome("send", FALSE) ELSE @,
                            !.set_by = IF n = name THEN Outcome("send", FALSE) ELSE @,
                            !.invoked = IF n = name THEN "failed" ELSE @]]

\* a request whose answer marks the handle active (C18 tells it from
\* peer_request)
peer_request_Activates(agents, name, ok) ==
  [agents EXCEPT ![name]._active = ok,
                 ![name].last = Outcome("send", ok),
                 ![name].set_by = IF ok THEN @ ELSE Outcome("send", FALSE),
                 ![name].invoked = IF ok THEN "ok" ELSE "failed"]

\* RemoteAgent.process_message, lines 146-157: the request is answered or fails
peer_request(agents, name, ok) ==
  IF ok THEN [agents EXCEPT ![name].last = Outcome("send", TRUE),
                            ![name].invoked = "ok"]
  ELSE [agents EXCEPT ![name]._active = FALSE,
                      ![name].last = Outcome("send", FALSE),
                      ![name].set_by = Outcome("send", FALSE),
                      ![name].invoked = "failed"]

-----------------------------------------------------------------------------
(* Inputs and model outputs the scenarios draw from                        *)
(***************************************************************************)

StrInput(text) == [is_str |-> TRUE, text |-> text, list |-> <<>>]
ListInput(list) == [is_str |-> FALSE, text |-> <<>>, list |-> list]

Hello == <<W("hello"), Tok("S"), W("world")>>

Inputs ==
  { StrInput(<<W("What is 5 + 3?")>>),
    ListInput(<<Msg("system", <<W("Be brief")>>), Msg("assistant", <<W("earlier")>>),
                Msg("task-delegation", <<W("X")>>), Msg("user", <<W("hi")>>)>>) }

\* role-tagged lists: several user messages, system messages between the
\* others, a tool message, only a system message, and the empty list
RoleTaggedInputs ==
  { ListInput(<<Msg("user", <<W("hi")>>), Msg("user", <<W("again")>>)>>),
    ListInput(<<Msg("system", <<W("Be brief")>>), Msg("user", <<W("hi")>>),
                Msg("system", <<W("Be kind")>>), Msg("task-delegation", <<W("X")>>),
                Msg("tool", <<W("sum:8")>>), Msg("task-delegation", <<W("Y")>>),
                Msg("user", <<W("hi")>>)>>),
    ListInput(<<Msg("system", <<W("Be brief")>>)>>),
    ListInput(<<>>) }

ToolBlock(body) == <<Tok("OT"), Tok("LB")>> \o body \o <<Tok("RB"), Tok("CL")>>
DelegateBlock(body) == <<Tok("OD"), Tok("LB")>> \o body \o <<Tok("RB"), Tok("CL")>>
Prose == <<W("I'll"), Tok("S"), W("do it.")>>

ToolCalc == Prose \o ToolBlock(<<Mem("tool", Str("calculator")), Mem("arguments", Obj)>>)
ToolEcho == ToolBlock(<<Mem("tool", Str("echo")), Mem("arguments", Obj)>>)
ToolGhost == ToolBlock(<<Mem("tool", Str("ghost")), Mem("arguments", Obj)>>)
ToolNoName == ToolBlock(<<Mem("arguments", Obj)>>)
ToolBadArgs == ToolBlock(<<Mem("tool", Str("calculator")), Mem("arguments", Num)>>)
ToolListName == ToolBlock(<<Mem("tool", List)>>)
ToolMalformed == Prose \o ToolBlock(<<Mem("tool", Str("calculator")), Tok("J")>>)
ToolEmpty == ToolBlock(<<>>)
DelegWorker == Prose \o DelegateBlock(<<Mem("agent", Str("worker")), Mem("task", Str("X"))>>)
DelegNobody == DelegateBlock(<<Mem("agent", Str("nobody")), Mem("task", Str("X"))>>)
DelegNoTask == DelegateBlock(<<Mem("agent", Str("worker"))>>)
DelegListName == DelegateBlock(<<Mem("agent", List), Mem("task", Str("X"))>>)
DelegNumTask == DelegateBlock(<<Mem("agent", Str("worker")), Mem("task", Num)>>)
DelegMalformed == DelegateBlock(<<Tok("J"), Mem("task", Str("X"))>>)
ToolAndDeleg == ToolCalc \o DelegWorker
BadToolGoodDeleg == ToolMalformed \o DelegWorker

\* a delegation to "helper", a peer only the agent of two peers is given
DelegHelper == DelegateBlock(<<Mem("agent", Str("helper")), Mem("task", Str("X"))>>)

ModelOutputs ==
  { Hello, <<>>, ToolCalc, ToolEcho, ToolGhost, ToolNoName, ToolBadArgs, ToolListName,
    ToolMalformed, ToolEmpty, DelegWorker, DelegNobody, DelegNoTask, DelegListName,
    DelegNumTask, DelegMalformed, ToolAndDeleg, BadToolGoodDeleg }

-----------------------------------------------------------------------------
(* Actions                                                                 *)
(***************************************************************************)

\* the state a stretch of code starts from: time has passed since the last one
Now == [memory |-> memory, clock |-> clock + 1, uuid |-> uuid,
        mcp_clients |-> mcp_clients, sub_agents |-> sub_agents, req |-> req]

Set(S) ==
  /\ memory' = S.memory
  /\ clock' = S.clock
  /\ uuid' = S.uuid
  /\ mcp_clients' = S.mcp_clients
  /\ sub_agents' = S.sub_agents
  /\ req' = S.req
  /\ UNCHANGED <<otel_initialized, environ, config, journal, budget>>

InFlight == {r \in Requests : req[r].pc \notin {"idle", "done"}}

\* a caller invokes process_message
Start(r, message, session_id, stream) ==
  /\ r \in config.enabled
  /\ req[r].pc = "idle"
  /\ config.concurrent \/ InFlight = {}
  /\ message \in config.inputs
  /\ session_id \in config.session_ids
  /\ stream \in config.streams
  /\ Set(StartCall(Now, r, message, session_id, stream))

\* _get_tools_prompt: `await mcp_client._init()` returned
McpInitReturned(S, r, ok) ==
  PromptTools([S EXCEPT !.mcp_clients = mcp_init(@, S.req[r].idx, ok)],
              r, S.req[r].idx + 1)

\* _get_tools_prompt: `await mcp_client._init()` completes
McpInitDone(r, ok) ==
  /\ req[r].pc = "mcp_init"
  /\ Set(McpInitReturned(Now, r, ok))

\* _get_agents_prompt: `await sub_agent._init()` returned
PeerInitReturned(S, r, ok) ==
  PromptAgents([S EXCEPT !.sub_agents =
                  peer_init(@, config.peer_order[S.req[r].idx], ok)],
               r, S.req[r].idx + 1)

\* _get_agents_prompt: `await sub_agent._init()` completes
PeerInitDone(r, ok) ==
  /\ req[r].pc = "peer_init"
  /\ Set(PeerInitReturned(Now, r, ok))

\* _call_model: the model backend answers
ModelDone(r, content) ==
  /\ req[r].pc = "model"
  /\ content \in config.repertoire
  /\ Set(AfterModel(Now, r, content))

\* _call_model, lines 526-530: the model backend raised
ModelRaised(S, r) ==
  StepExcept(WithReq(S, r, span_failure(S.req[r])), r,
             Exc("HTTPError", "model backend failed"))

\* _call_model, lines 526-530: the model backend raises
ModelFailed(r) ==
  /\ req[r].pc = "model"
  /\ Set(ModelRaised(Now, r))

\* MCPClient.call_tool, lines 119-124: its _init returned
ToolInitReturned(S, r, ok) ==
  LET i == S.req[r].idx
      S1 == [S EXCEPT !.mcp_clients = mcp_init(@, i, ok)]
  IN IF ~ok
     THEN ExecuteToolExcept(S1, r, Exc("RuntimeError", "MCP server unavailable"))
     ELSE IF S.req[r].tool_name \notin S1.mcp_clients[i]._tools
     THEN ExecuteToolExcept(S1, r, Exc("ValueError", "Tool not found"))
     ELSE WithReq(S1, r, [S.req[r] EXCEPT !.pc = "tool_call"])

\* MCPClient.call_tool, lines 119-124: its _init completes
ToolInitDone(r, ok) ==
  /\ req[r].pc = "tool_init"
  /\ Set(ToolInitReturned(Now, r, ok))

\* MCPClient.call_tool, lines 126-145: the tool server answered or failed
ToolCallReturned(S, r, ok) ==
  IF ok THEN ToolReturned(S, r, ToolResult)
  ELSE ExecuteToolExcept([S EXCEPT !.mcp_clients[S.req[r].idx]._active = FALSE],
                         r, Exc("RuntimeError", "Tool call failed"))

\* MCPClient.call_tool, lines 126-145: the tool server answers or fails
ToolCallDone(r, ok) ==
  /\ req[r].pc = "tool_call"
  /\ Set(ToolCallReturned(Now, r, ok))

\* RemoteAgent.process_message, lines 142-144: its _init returned
DelegInitReturned(S, r, ok) ==
  LET S1 == [S EXCEPT !.sub_agents = IF ok THEN peer_init(@, S.req[r].agent_name, ok)
                                       ELSE peer_unavailable(@, S.req[r].agent_name)]
  IN IF ok
     THEN WithReq(S1, r, [S.req[r] EXCEPT !.pc = "deleg_req", !.n_peer = @ + 1,
                                          !.trace = Append(@, "peer")])
     ELSE DelegationFailed(S1, r, Exc("RuntimeError", "Agent unavailable"))

\* RemoteAgent.process_message, lines 142-144: its _init completes
DelegInitDone(r, ok) ==
  /\ req[r].pc = "deleg_init"
  /\ Set(DelegInitReturned(Now, r, ok))

\* RemoteAgent.process_message, lines 146-157: the peer answered or failed
DelegReqReturned(S, r, ok) ==
  LET S1 == [S EXCEPT !.sub_agents = peer_request(@, S.req[r].agent_name, ok)]
  IN IF ok THEN DelegationAnswered(S1, r, PeerResponse)
     ELSE DelegationFailed(S1, r, Exc("RuntimeError", "Agent request failed"))

\* RemoteAgent.process_message, lines 146-157: the peer answers or fails
DelegReqDone(r, ok) ==
  /\ req[r].pc = "deleg_req"
  /\ Set(DelegReqReturned(Now, r, ok))

\* the generator resumes after its yield
Resumption(S, r) ==
  LET q == S.req[r]
  IN IF q.pending # <<>>
     THEN Yield(S, r, Append(Head(q.pending), Tok("S")), Tail(q.pending), q.after)
     ELSE IF q.after = "final" THEN ReturnFinal(S, r)
     ELSE IF q.after = "maxsteps"
     THEN Finish(WithReq(S, r, span_success(q)), r, "maxsteps")
     ELSE Finish(S, r, "apology")

\* the consumer asks for the next chunk: the generator resumes after its yield
Resume(r) ==
  /\ req[r].pc = "yield"
  /\ Set(Resumption(Now, r))

\* the session ids callers pass; "" is a call without one
SessionArgs == {"", "a", "b"}

\* the consumer stops reading and closes the generator
Close(r) ==
  /\ req[r].pc = "yield"
  /\ Set(GeneratorExit(Now, r))

\* the event loop runs the aclose() it scheduled for the abandoned loop
LoopClose(r) ==
  /\ req[r].orphaned
  /\ Set(_agentic_loop_aclose(Now, r))

Next ==
  \/ \E r \in Requests, message \in Inputs \cup RoleTaggedInputs,
        session_id \in SessionArgs, stream \in BOOLEAN :
       Start(r, message, session_id, stream)
  \/ \E r \in Requests, ok \in BOOLEAN : McpInitDone(r, ok)
  \/ \E r \in Requests, ok \in BOOLEAN : PeerInitDone(r, ok)
  \/ \E r \in Requests, content \in ModelOutputs \cup {DelegHelper} :
       ModelDone(r, content)
  \/ \E r \in Requests : ModelFailed(r)
  \/ \E r \in Requests, ok \in BOOLEAN : ToolInitDone(r, ok)
  \/ \E r \in Requests, ok \in BOOLEAN : ToolCallDone(r, ok)
  \/ \E r \in Requests, ok \in BOOLEAN : DelegInitDone(r, ok)
  \/ \E r \in Requests, ok \in BOOLEAN : DelegReqDone(r, ok)
  \/ \E r \in Requests : Resume(r)
  \/ \E r \in Requests : Close(r)
  \/ \E r \in Requests : LoopClose(r)

NoBudget == [creates |-> 0, named |-> 0, appends |-> 0, deletes |-> 0]
NoJournal == [appended |-> [s \in {} |-> <<>>],
              last |-> [op |-> "", session_id |-> "", ok |-> FALSE, before |-> <<>>]]

\* the outputs the model backend of a call of several steps answers with; a
\* call of one step draws from all of ModelOutputs
CoreOutputs ==
  { Hello, ToolCalc, ToolGhost, ToolMalformed, DelegWorker, DelegNobody, DelegNumTask,
    BadToolGoodDeleg }

\* one agent with two tool servers and the peer "worker", serving one request;
\* several_steps is what the model backend of a call of several steps answers
InitWith(several_steps) ==
  /\ memory = [sessions |-> <<>>, max_sessions |-> DefaultMaxSessions,
               max_events_per_session |-> DefaultMaxEvents]
  /\ clock = 0
  /\ uuid = 1
  /\ mcp_clients = [i \in DOMAIN ServerTools |-> [_active |-> FALSE, _tools |-> {}]]
  /\ sub_agents = Inactive(ConfiguredPeers)
  /\ req = [r \in Requests |-> IdleReq]
  /\ otel_initialized = TRUE
  /\ environ = Exporting
  /\ \E k \in 0..MaxStepsBound :
       config = [max_steps |-> k, memory_context_limit |-> 1,
                 peer_order |-> <<"worker">>, enabled |-> {"r1"},
                 concurrent |-> FALSE,
                 inputs |-> Inputs, session_ids |-> {"", "a"}, streams |-> BOOLEAN,
                 repertoire |-> IF k <= 1 THEN ModelOutputs ELSE several_steps]
  /\ journal = NoJournal
  /\ budget = NoBudget

Init == InitWith(CoreOutputs)

Spec == Init /\ [][Next]_vars

\* the positions at which a call waits for a collaborator or for its consumer
Waiting == {"mcp_init", "peer_init", "model", "tool_init", "tool_call", "deleg_init",
            "deleg_req", "yield"}

\* some call waits at the position
At(pc) == \E r \in Requests : req[r].pc = pc

\* the call that waits at the position is resumed.  Every action advances the
\* clock, and with one call at a time a step taken while the call waits at the
\* position is the action Next has for it (for "model", ModelDone or
\* ModelFailed)
Resumed(pc) == At(pc) /\ clock' = clock + 1

\* every collaborator call returns or fails, and the consumer keeps asking for
\* chunks
Fairness == \A pc \in Waiting : WF_clock(Resumed(pc))

\* one output of each way a step can go on or end
LiveOutputs == {Hello, ToolCalc, ToolGhost, DelegWorker, DelegNobody, DelegNumTask}

LiveInit == InitWith(LiveOutputs)

LiveSpec == LiveInit /\ [][Next]_vars /\ Fairness

-----------------------------------------------------------------------------
(* Two callers of one agent                                                *)
(***************************************************************************)

\* the steps a call may take when two requests are served
SharedSteps == 1

\* what the model backend answers when two requests are served
SharedOutputs == {Hello, ToolCalc, DelegWorker}

\* an agent with the default store, these providers and this configuration
Serving(clients, agents, cfg) ==
  /\ memory = [sessions |-> <<>>, max_sessions |-> DefaultMaxSessions,
               max_events_per_session |-> DefaultMaxEvents]
  /\ clock = 0
  /\ uuid = 1
  /\ mcp_clients = clients
  /\ sub_agents = agents
  /\ req = [r \in Requests |-> IdleReq]
  /\ otel_initialized = TRUE
  /\ environ = Exporting
  /\ config = cfg
  /\ journal = NoJournal
  /\ budget = NoBudget

Question == StrInput(<<W("What is 5 + 3?")>>)

\* a new agent with one tool server and the peer "worker"; a caller makes two
\* calls, the second after the first is over
SuccessiveInit ==
  Serving(<<[_active |-> FALSE, _tools |-> {}]>>, Inactive(ConfiguredPeers),
          [max_steps |-> 1, memory_context_limit |-> 1, peer_order |-> <<"worker">>,
           enabled |-> Requests, concurrent |-> FALSE, inputs |-> {Question},
           session_ids |-> {"", "a"}, streams |-> {FALSE},
           repertoire |-> SharedOutputs])

\* an agent whose tool server and peer "worker" are discovered; two callers,
\* whose requests the event loop interleaves at every await
ConcurrentInit ==
  \E k \in 1..SharedSteps :
    Serving(<<[_active |-> TRUE, _tools |-> ServerTools[1]]>>, Discovered(ConfiguredPeers),
            [max_steps |-> k, memory_context_limit |-> 1, peer_order |-> <<"worker">>,
             enabled |-> Requests, concurrent |-> TRUE, inputs |-> {Question},
             session_ids |-> IF k <= 1 THEN {"a", "b"} ELSE {"a"}, streams |-> {FALSE},
             repertoire |-> IF k <= 1 THEN SharedOutputs ELSE {Hello, ToolCalc}])

\* an agent with no tool server and two peers, "worker" discovered and
\* "helper" not yet; two callers, whose requests the event loop interleaves at
\* every await
TwoPeersInit ==
  Serving(<<>>, [n \in {"worker", "helper"} |->
                   IF n = "worker" THEN Discovered({n})[n] ELSE Inactive({n})[n]],
          [max_steps |-> 1, memory_context_limit |-> 1,
           peer_order |-> <<"worker", "helper">>,
           enabled |-> Requests, concurrent |-> TRUE, inputs |-> {Question},
           session_ids |-> {"a"}, streams |-> {FALSE},
           repertoire |-> {DelegWorker, DelegHelper}])

SharedInit == SuccessiveInit \/ ConcurrentInit \/ TwoPeersInit

SharedSpec == SharedInit /\ [][Next]_vars

-----------------------------------------------------------------------------
(* An agent whose store has a small max_sessions                           *)
(***************************************************************************)

\* an agent whose store holds at most max_sessions sessions
ServingCapped(max_sessions, clients, agents, cfg) ==
  /\ memory = [sessions |-> <<>>, max_sessions |-> max_sessions,
               max_events_per_session |-> DefaultMaxEvents]
  /\ clock = 0
  /\ uuid = 1
  /\ mcp_clients = clients
  /\ sub_agents = agents
  /\ req = [r \in Requests |-> IdleReq]
  /\ otel_initialized = TRUE
  /\ environ = Exporting
  /\ config = cfg
  /\ journal = NoJournal
  /\ budget = NoBudget

\* a new agent with one tool server and the peer "worker" whose store holds
\* one session; a caller makes two calls, the second after the first is over
SuccessiveCappedInit ==
  ServingCapped(1, <<[_active |-> FALSE, _tools |-> {}]>>, Inactive(ConfiguredPeers),
                [max_steps |-> 1, memory_context_limit |-> 1, peer_order |-> <<"worker">>,
                 enabled |-> Requests, concurrent |-> FALSE, inputs |-> {Question},
                 session_ids |-> {"", "a"}, streams |-> {FALSE},
                 repertoire |-> SharedOutputs])

\* an agent without tool servers and peers whose store holds up to
\* MaxSessionsBound sessions; two callers, whose requests the event loop
\* interleaves at every await
ConcurrentCappedInit ==
  \E n \in 1..MaxSessionsBound :
    ServingCapped(n, <<>>, Inactive({}),
                  [max_steps |-> 1, memory_context_limit |-> 1, peer_order |-> <<>>,
                   enabled |-> Requests, concurrent |-> TRUE, inputs |-> {Question},
                   session_ids |-> SessionArgs, streams |-> BOOLEAN,
                   repertoire |-> {Hello}])

CappedInit == SuccessiveCappedInit \/ ConcurrentCappedInit

CappedSpec == CappedInit /\ [][Next]_vars

-----------------------------------------------------------------------------
(* Two agents of one configuration, one asked to stream and one not:       *)
(* the variables hold the agent that streams, journal holds the other, and *)
(* every step gives both the same input, model output or collaborator      *)
(* outcome.                                                                *)
(***************************************************************************)

Caller == "r1"

\* the state a stretch of code of the second agent starts from
TwinNow == [journal EXCEPT !.clock = @ + 1]

\* one of the agents waits at pc
Waits(pc) == req[Caller].pc = pc \/ journal.req[Caller].pc = pc

\* the agents that wait at pc take the step: S1 is the state after the step
\* of the first, S2 that of the second
Both(pc, S1, S2) ==
  /\ IF req[Caller].pc = pc
     THEN /\ memory' = S1.memory
          /\ clock' = S1.clock
          /\ uuid' = S1.uuid
          /\ mcp_clients' = S1.mcp_clients
          /\ sub_agents' = S1.sub_agents
          /\ req' = S1.req
     ELSE UNCHANGED <<memory, clock, uuid, mcp_clients, sub_agents, req>>
  /\ journal' = IF journal.req[Caller].pc = pc THEN S2 ELSE journal
  /\ UNCHANGED <<otel_initialized, environ, config, budget>>

TwinStart(message, session_id) ==
  /\ message \in config.inputs
  /\ session_id \in config.session_ids
  /\ Waits("idle")
  /\ Both("idle", StartCall(Now, Caller, message, session_id, TRUE),
                  StartCall(TwinNow, Caller, message, session_id, FALSE))

TwinMcpInitDone(ok) ==
  /\ Waits("mcp_init")
  /\ Both("mcp_init", McpInitReturned(Now, Caller, ok), McpInitReturned(TwinNow, Caller, ok))

TwinPeerInitDone(ok) ==
  /\ Waits("peer_init")
  /\ Both("peer_init", PeerInitReturned(Now, Caller, ok), PeerInitReturned(TwinNow, Caller, ok))

TwinModelDone(content) ==
  /\ content \in config.repertoire
  /\ Waits("model")
  /\ Both("model", AfterModel(Now, Caller, content), AfterModel(TwinNow, Caller, content))

TwinModelFailed ==
  /\ Waits("model")
  /\ Both("model", ModelRaised(Now, Caller), ModelRaised(TwinNow, Caller))

TwinToolInitDone(ok) ==
  /\ Waits("tool_init")
  /\ Both("tool_init", ToolInitReturned(Now, Caller, ok), ToolInitReturned(TwinNow, Caller, ok))

TwinToolCallDone(ok) ==
  /\ Waits("tool_call")
  /\ Both("tool_call", ToolCallReturned(Now, Caller, ok), ToolCallReturned(TwinNow, Caller, ok))

TwinDelegInitDone(ok) ==
  /\ Waits("deleg_init")
  /\ Both("deleg_init", DelegInitReturned(Now, Caller, ok),
                     DelegInitReturned(TwinNow, Caller, ok))

TwinDelegReqDone(ok) ==
  /\ Waits("deleg_req")
  /\ Both("deleg_req", DelegReqReturned(Now, Caller, ok), DelegReqReturned(TwinNow, Caller, ok))

\* each consumer reads on; the one of the agent that does not stream is at
\* the end after its one chunk
TwinResume ==
  /\ Waits("yield")
  /\ Both("yield", Resumption(Now, Caller), Resumption(TwinNow, Caller))

TwinNext ==
  \/ \E message \in Inputs \cup RoleTaggedInputs, session_id \in SessionArgs :
       TwinStart(message, session_id)
  \/ \E ok \in BOOLEAN : TwinMcpInitDone(ok)
  \/ \E ok \in BOOLEAN : TwinPeerInitDone(ok)
  \/ \E content \in ModelOutputs : TwinModelDone(content)
  \/ TwinModelFailed
  \/ \E ok \in BOOLEAN : TwinToolInitDone(ok)
  \/ \E ok \in BOOLEAN : TwinToolCallDone(ok)
  \/ \E ok \in BOOLEAN : TwinDelegInitDone(ok)
  \/ \E ok \in BOOLEAN : TwinDelegReqDone(ok)
  \/ TwinResume

\* two new agents with the tool servers and the peer "worker"
TwinInit ==
  /\ memory = [sessions |-> <<>>, max_sessions |-> DefaultMaxSessions,
               max_events_per_session |-> DefaultMaxEvents]
  /\ clock = 0
  /\ uuid = 1
  /\ mcp_clients = [i \in DOMAIN ServerTools |-> [_active |-> FALSE, _tools |-> {}]]
  /\ sub_agents = Inactive(ConfiguredPeers)
  /\ req = [r \in Requests |-> IdleReq]
  /\ otel_initialized = TRUE
  /\ environ = Exporting
  /\ \E k \in 0..MaxStepsBound :
       config = [max_steps |-> k, memory_context_limit |-> 1,
                 peer_order |-> <<"worker">>, enabled |-> {Caller},
                 concurrent |-> FALSE,
                 inputs |-> Inputs, session_ids |-> {"", "a"}, streams |-> BOOLEAN,
                 repertoire |-> IF k <= 1 THEN ModelOutputs ELSE CoreOutputs]
  /\ journal = [memory |-> memory, clock |-> clock, uuid |-> uuid,
                mcp_clients |-> mcp_clients, sub_agents |-> sub_agents, req |-> req]
  /\ budget = NoBudget

TwinSpec == TwinInit /\ [][TwinNext]_vars

-----------------------------------------------------------------------------
(* Agents of several memory_context_limit                                  *)
(***************************************************************************)

\* largest memory_context_limit an Agent is configured with
MaxContextLimit == 2

\* what the model backend answers: a final answer, a tool call that makes the
\* working conversation grow, and a delegation
ContextOutputs == {Hello, ToolCalc, DelegWorker}

\* a new agent with one tool server and the peer "worker", configured with a
\* memory_context_limit of 0 or more, serving one request
ContextInit ==
  \E limit \in 0..MaxContextLimit :
    Serving(<<[_active |-> FALSE, _tools |-> {}]>>, Inactive(ConfiguredPeers),
            [max_steps |-> MaxStepsBound, memory_context_limit |-> limit,
             peer_order |-> <<"worker">>, enabled |-> {"r1"}, concurrent |-> FALSE,
             inputs |-> Inputs \cup RoleTaggedInputs, session_ids |-> {"a"},
             streams |-> {FALSE}, repertoire |-> ContextOutputs])

ContextSpec == ContextInit /\ [][Next]_vars

-----------------------------------------------------------------------------
(* The session store driven directly through its API                       *)
(*                                                                         *)
(* journal.appended[s] is every event added to session s since it was      *)
(* created; journal.last is the last call made and the sessions before it. *)
(* budget bounds the calls of a scenario: creates (create_session calls),  *)
(* named (calls that name an id the store may not hold), appends, deletes. *)
(***************************************************************************)

\* smallest max_sessions whose tenth is more than one session
TwoPurged == 20

Recorded(op, session_id, ok) ==
  [op |-> op, session_id |-> session_id, ok |-> ok, before |-> memory.sessions]

AppendedAfter(mem, fresh) ==
  [s \in SessionIds(mem) |->
     IF s \in fresh \/ s \notin DOMAIN journal.appended THEN <<>>
     ELSE journal.appended[s]]

StoreFrame ==
  UNCHANGED <<mcp_clients, sub_agents, req, otel_initialized, environ, config>>

CreateSession(session_id, dt) ==
  /\ budget.creates > 0
  /\ session_id # "" => budget.named > 0
  /\ clock + dt <= MaxClock
  /\ LET mem == create_session(memory, "test_app", "test_user", session_id, clock + dt, uuid)
     IN /\ memory' = mem
        /\ journal' = [appended |-> AppendedAfter(mem, {created_id(session_id, uuid)}),
                       last |-> Recorded("create_session", created_id(session_id, uuid),
                                         TRUE)]
  /\ clock' = clock + dt
  /\ uuid' = IF session_id = "" THEN uuid + 1 ELSE uuid
  /\ budget' = [budget EXCEPT !.creates = @ - 1,
                              !.named = IF session_id = "" THEN @ ELSE @ - 1]
  /\ StoreFrame

GetOrCreateSession(session_id, dt) ==
  /\ budget.named > 0
  /\ HasSession(memory, session_id) \/ budget.creates > 0
  /\ clock + dt <= MaxClock
  /\ LET mem == get_or_create_session(memory, session_id, "agent", "user", clock + dt, uuid)
         created == ~HasSession(memory, session_id)
     IN /\ memory' = mem
        /\ journal' = [appended |-> AppendedAfter(mem, IF created THEN {session_id} ELSE {}),
                       last |-> Recorded("get_or_create_session", session_id, created)]
        /\ budget' = [budget EXCEPT !.named = @ - 1,
                                    !.creates = IF created THEN @ - 1 ELSE @]
  /\ clock' = clock + dt
  /\ UNCHANGED uuid
  /\ StoreFrame

\* memory.create_event followed by memory.add_event
AddEvent(session_id, event_type, dt) ==
  /\ budget.appends > 0
  /\ ~HasSession(memory, session_id) => budget.named > 0
  /\ clock + dt <= MaxClock
  /\ LET ev == create_event(event_type, <<W("text")>>, uuid, clock + dt)
         ok == add_event_result(memory, session_id)
     IN /\ memory' = add_event(memory, session_id, ev, clock + dt)
        /\ journal' = [appended |-> IF ok THEN [journal.appended EXCEPT ![session_id] =
                                                  Append(@, ev)]
                                    ELSE journal.appended,
                       last |-> Recorded("add_event", session_id, ok)]
  /\ clock' = clock + dt
  /\ uuid' = uuid + 1
  /\ budget' = [budget EXCEPT !.appends = @ - 1,
                              !.named = IF HasSession(memory, session_id) THEN @ ELSE @ - 1]
  /\ StoreFrame

DeleteSession(session_id) ==
  /\ budget.deletes > 0
  /\ ~HasSession(memory, session_id) => budget.named > 0
  /\ LET mem == delete_session(memory, session_id)
     IN /\ memory' = mem
        /\ journal' = [appended |-> AppendedAfter(mem, {}),
                       last |-> Recorded("delete_session", session_id,
                                         HasSession(memory, session_id))]
  /\ budget' = [budget EXCEPT !.deletes = @ - 1,
                              !.named = IF HasSession(memory, session_id) THEN @ ELSE @ - 1]
  /\ UNCHANGED <<clock, uuid>>
  /\ StoreFrame

CleanupOldSessions(max_age_hours, dt) ==
  /\ budget.deletes > 0
  /\ clock + dt <= MaxClock
  /\ LET mem == cleanup_old_sessions(memory, max_age_hours, clock + dt)
     IN /\ memory' = mem
        /\ journal' = [appended |-> AppendedAfter(mem, {}),
                       last |-> Recorded("cleanup_old_sessions", "", TRUE)]
  /\ clock' = clock + dt
  /\ budget' = [budget EXCEPT !.deletes = @ - 1]
  /\ UNCHANGED uuid
  /\ StoreFrame

StoreNext ==
  \/ \E session_id \in {"", "a"}, dt \in {0, 1} : CreateSession(session_id, dt)
  \/ \E session_id \in {"a", "b"}, dt \in {0, 1} : GetOrCreateSession(session_id, dt)
  \/ \E session_id \in SessionIds(memory) \cup {"missing"},
        event_type \in {"user_message", "agent_response"}, dt \in {0, 1} :
       AddEvent(session_id, event_type, dt)
  \/ \E session_id \in SessionIds(memory) \cup {"missing"} : DeleteSession(session_id)
  \/ \E max_age_hours \in {0, 1}, dt \in {0, 1} : CleanupOldSessions(max_age_hours, dt)

\* the store configurations and call budgets of the scenarios: one about the
\* event cap, one about the session cap, one about a purge of two sessions
StoreScenarios ==
  {[max_sessions |-> DefaultMaxSessions, max_events_per_session |-> m,
    budget |-> [creates |-> 1, named |-> 1, appends |-> m + 1, deletes |-> 0]] :
     m \in 1..MaxEventsBound}
  \cup
  {[max_sessions |-> n, max_events_per_session |-> DefaultMaxEvents,
    budget |-> [creates |-> n + 2, named |-> 2, appends |-> 1, deletes |-> 1]] :
     n \in 1..MaxSessionsBound}
  \cup
  {[max_sessions |-> TwoPurged, max_events_per_session |-> DefaultMaxEvents,
    budget |-> [creates |-> TwoPurged + 2, named |-> 0, appends |-> 0, deletes |-> 0]]}

StoreInit ==
  /\ \E sc \in StoreScenarios :
       /\ memory = [sessions |-> <<>>, max_sessions |-> sc.max_sessions,
                    max_events_per_session |-> sc.max_events_per_session]
       /\ budget = sc.budget
  /\ clock = 0
  /\ uuid = 1
  /\ mcp_clients = <<>>
  /\ sub_agents = Inactive({})
  /\ req = [r \in Requests |-> IdleReq]
  /\ otel_initialized = FALSE
  /\ environ = NoEnviron
  /\ config = [max_steps |-> 0, memory_context_limit |-> 0, peer_order |-> <<>>,
               enabled |-> {}, concurrent |-> FALSE, inputs |-> {},
               session_ids |-> {}, streams |-> {}, repertoire |-> {}]
  /\ journal = NoJournal

StoreSpec == StoreInit /\ [][StoreNext]_vars

-----------------------------------------------------------------------------
(* The telemetry API driven directly                                       *)
(*                                                                         *)
(* A process starts with some environment and calls init_otel,             *)
(* is_otel_enabled and the span operations of one KaosOtelManager in any   *)
(* order, all in one execution context, whose span stack, metrics and      *)
(* ended spans are kept in req["r1"].  journal.last is the last call made  *)
(* and what it returned (for an end of a span: whether it ended one),      *)
(* journal.succeeded whether init_otel has returned True, journal.setups   *)
(* how often the SDK was set up.  budget.calls bounds the calls.           *)
(***************************************************************************)

\* the calls a process makes to the telemetry API
MaxTelemetryCalls == 6

\* the environments a process is started with
Environs ==
  [OTEL_SDK_DISABLED : {"", "true", "maybe"}, OTEL_SERVICE_NAME : {"", "agent"},
   OTEL_EXPORTER_OTLP_ENDPOINT : {"", "http://collector:4317"}]

Context == "r1"

TelemetryFrame == UNCHANGED <<memory, clock, uuid, mcp_clients, sub_agents, config>>

Call(op, result) ==
  /\ budget.calls > 0
  /\ budget' = [budget EXCEPT !.calls = @ - 1]
  /\ journal' = [journal EXCEPT !.last = [op |-> op, result |-> result]]
  /\ TelemetryFrame

InitOtel(service_name) ==
  LET out == init_otel(otel_initialized, environ, service_name)
  IN /\ budget.calls > 0
     /\ budget' = [budget EXCEPT !.calls = @ - 1]
     /\ otel_initialized' = out.initialized
     /\ environ' = out.env
     /\ journal' = [last |-> [op |-> "init_otel", result |-> out.result],
                    succeeded |-> journal.succeeded \/ out.result,
                    setups |-> journal.setups + IF out.setup THEN 1 ELSE 0]
     /\ UNCHANGED req
     /\ TelemetryFrame

IsOtelEnabled ==
  /\ Call("is_otel_enabled", is_otel_enabled(otel_initialized))
  /\ UNCHANGED <<req, otel_initialized, environ>>

SpanBegin(name, metric_kind) ==
  /\ Call("span_begin", TRUE)
  /\ req' = [req EXCEPT ![Context] = span_begin(@, name, metric_kind)]
  /\ UNCHANGED <<otel_initialized, environ>>

SpanSuccess ==
  /\ Call("span_success", span_success(req[Context]).stack # req[Context].stack)
  /\ req' = [req EXCEPT ![Context] = span_success(@)]
  /\ UNCHANGED <<otel_initialized, environ>>

SpanFailure ==
  /\ Call("span_failure", span_failure(req[Context]).stack # req[Context].stack)
  /\ req' = [req EXCEPT ![Context] = span_failure(@)]
  /\ UNCHANGED <<otel_initialized, environ>>

TelemetryNext ==
  \/ \E service_name \in {"", "agent"} : InitOtel(service_name)
  \/ IsOtelEnabled
  \/ \E span \in {<<"request", "request">>, <<"step", "">>} : SpanBegin(span[1], span[2])
  \/ SpanSuccess
  \/ SpanFailure

TelemetryInit ==
  /\ memory = [sessions |-> <<>>, max_sessions |-> DefaultMaxSessions,
               max_events_per_session |-> DefaultMaxEvents]
  /\ clock = 0
  /\ uuid = 1
  /\ mcp_clients = <<>>
  /\ sub_agents = Inactive({})
  /\ req = [r \in Requests |-> IdleReq]
  /\ otel_initialized = FALSE
  /\ environ \in Environs
  /\ config = [max_steps |-> 0, memory_context_limit |-> 0, peer_order |-> <<>>,
               enabled |-> {}, concurrent |-> FALSE, inputs |-> {},
               session_ids |-> {}, streams |-> {}, repertoire |-> {}]
  /\ journal = [last |-> [op |-> "", result |-> FALSE], succeeded |-> FALSE, setups |-> 0]
  /\ budget = [calls |-> MaxTelemetryCalls]

TelemetrySpec == TelemetryInit /\ [][TelemetryNext]_vars

-----------------------------------------------------------------------------
(* The parser applied to model outputs of several fenced blocks            *)
(***************************************************************************)

MaxPieces == 3

\* what a model output is put together from: prose, and fenced blocks of
\* either kind whose body is an object, is an object with text that is not
\* JSON, does not open with a brace, does not close its brace, or that lack
\* the closing fence
Pieces ==
  { Prose,
    ToolBlock(<<Mem("tool", Str("calculator")), Mem("arguments", Obj)>>),
    ToolBlock(<<Mem("tool", Str("echo")), Mem("arguments", Obj)>>),
    ToolBlock(<<Mem("tool", Str("calculator")), Tok("J")>>),
    <<Tok("OT"), Tok("J"), Tok("CL")>>,
    <<Tok("OT"), Tok("LB"), Mem("tool", Str("calculator")), Tok("CL")>>,
    <<Tok("OT"), Tok("LB"), Mem("tool", Str("calculator")), Tok("RB")>>,
    DelegateBlock(<<Mem("agent", Str("worker")), Mem("task", Str("X"))>>),
    DelegateBlock(<<Tok("J"), Mem("task", Str("X"))>>),
    <<Tok("OD"), Tok("J"), Tok("CL")>> }

RECURSIVE Texts(_)
\* the texts of up to n pieces
Texts(n) ==
  IF n = 0 THEN {<<>>}
  ELSE LET shorter == Texts(n - 1)
       IN shorter \cup {t \o p : t \in shorter, p \in Pieces}

BlockTypes == {"tool_call", "delegate"}

\* the loop calls _parse_block on the model's output
ParseBlock(block_type) ==
  /\ journal' = [journal EXCEPT !.block_type = block_type,
                                !.result = _parse_block(journal.content, block_type)]
  /\ UNCHANGED <<memory, clock, uuid, mcp_clients, sub_agents, req,
                 otel_initialized, environ, config, budget>>

ParseNext == \E block_type \in BlockTypes : ParseBlock(block_type)

ParseInit ==
  /\ memory = [sessions |-> <<>>, max_sessions |-> DefaultMaxSessions,
               max_events_per_session |-> DefaultMaxEvents]
  /\ clock = 0
  /\ uuid = 1
  /\ mcp_clients = <<>>
  /\ sub_agents = Inactive({})
  /\ req = [r \in Requests |-> IdleReq]
  /\ otel_initialized = FALSE
  /\ environ = NoEnviron
  /\ config = [max_steps |-> 0, memory_context_limit |-> 0, peer_order |-> <<>>,
               enabled |-> {}, concurrent |-> FALSE, inputs |-> {},
               session_ids |-> {}, streams |-> {}, repertoire |-> {}]
  /\ \E content \in Texts(MaxPieces) :
       journal = [content |-> content, block_type |-> "", result |-> NoBlock]
  /\ budget = NoBudget

ParseSpec == ParseInit /\ [][ParseNext]_vars

-----------------------------------------------------------------------------
(* Reading the history of a request and of the store                       *)
(***************************************************************************)

Count(s, x) == Cardinality({i \in DOMAIN s : s[i] = x})

\* the events the store holds for a session
SessionEvents(mem, session_id) ==
  IF HasSession(mem, session_id)
  THEN mem.sessions[SessionIndex(mem, session_id)].events
  ELSE <<>>

TypesOf(events) == [i \in DOMAIN events |-> events[i].event_type]

\* the types of the events in the session of request record q
SessionTypes(q) == TypesOf(SessionEvents(memory, q.session_id))

\* the position in q.trace of the n-th model invocation
ModelMark(q, n) ==
  CHOOSE i \in DOMAIN q.trace :
    q.trace[i] = "model" /\ Count(SubSeq(q.trace, 1, i), "model") = n

\* what the n-th loop step did after invoking the model
StepTrace(q, n) ==
  SubSeq(q.trace, ModelMark(q, n) + 1,
         IF n < q.n_model THEN ModelMark(q, n + 1) - 1 ELSE Len(q.trace))

\* the n-th loop step is over: the next one began, or the loop was left
StepOver(q, n) == n < q.n_model \/ q.pc \in {"yield", "done"}

\* the events among the entries of a trace
EventsOnly(s) == FilterIdx(s, {i \in DOMAIN s : s[i] \notin {"model", "tool", "peer"}})

DelegationEvents(s) ==
  FilterIdx(s, {i \in DOMAIN s : s[i] \in {"delegation_request", "delegation_response",
                                            "delegation_error"}})

\* a delegation_request and then exactly one of delegation_response and
\* delegation_error
RequestThenOutcome(s) ==
  /\ Len(DelegationEvents(s)) = 2
  /\ DelegationEvents(s)[1] = "delegation_request"
  /\ DelegationEvents(s)[2] \in {"delegation_response", "delegation_error"}

\* the step went on to the next iteration of the loop
WentOn(q, n) == n < q.n_model \/ (q.pc \in {"yield", "done"} /\ q.after = "maxsteps")

\* a model output with neither directive
PlainText(content) ==
  /\ ~BlockTruthy(_parse_block(content, "tool_call"))
  /\ ~BlockTruthy(_parse_block(content, "delegate"))

\* a model output with a tool-call directive for a tool some configured
\* provider exposes
ExposedToolDirective(content) ==
  LET b == _parse_block(content, "tool_call")
      tool == DictGet(b.obj, "tool", Str(""))
  IN /\ BlockTruthy(b)
     /\ tool.kind = "str"
     /\ \E i \in DOMAIN ServerTools : tool.s \in ServerTools[i]
     /\ DictGet(b.obj, "arguments", Obj).kind = "obj"

\* a model output with a delegate directive carrying a non-empty peer name and
\* task, and no tool-call directive
DelegateDirective(content) ==
  LET d == _parse_block(content, "delegate")
  IN /\ ~BlockTruthy(_parse_block(content, "tool_call"))
     /\ BlockTruthy(d)
     /\ Truthy(DictGet(d.obj, "agent", Str("")))
     /\ Truthy(DictGet(d.obj, "task", Str("")))

DirectiveAgent(content) == DictGet(_parse_block(content, "delegate").obj, "agent", Str(""))
DirectiveTask(content) == DictGet(_parse_block(content, "delegate").obj, "task", Str(""))

\* ... whose peer name and task are texts
TextDelegateDirective(content) ==
  /\ DelegateDirective(content)
  /\ DirectiveAgent(content).kind = "str"
  /\ DirectiveTask(content).kind = "str"

\* the pattern finds a block of the type, and its body is not JSON
MalformedBlock(content, block_type) ==
  BlockMatch(content, block_type).matched /\ ~LoadsOk(BlockMatch(content, block_type).body)

\* the model outputs of each kind, sorted once
PlainTexts == {c \in ModelOutputs : PlainText(c)}
ExposedToolDirectives == {c \in ModelOutputs : ExposedToolDirective(c)}
DelegateDirectives == {c \in ModelOutputs : DelegateDirective(c)}
TextDelegateDirectives == {c \in ModelOutputs : TextDelegateDirective(c)}
\* ... naming a configured peer, and naming none
ToConfiguredPeer ==
  {c \in TextDelegateDirectives : DirectiveAgent(c).s \in ConfiguredPeers}
MalformedBlocks ==
  {c \in ModelOutputs : \E t \in {"tool_call", "delegate"} : MalformedBlock(c, t)}
\* the parser returns absent for every malformed block of the output
AbsentWhereMalformed ==
  {c \in ModelOutputs :
     \A t \in {"tool_call", "delegate"} : MalformedBlock(c, t) => ~_parse_block(c, t).found}

-----------------------------------------------------------------------------
(* The claims                                                              *)
(***************************************************************************)

\* C1: for every max_steps = k >= 0, a call in which every model output was
\* the same tool-call directive for an exposed tool and every tool call
\* succeeded has made exactly k tool invocations when it is over, and the
\* fixed diagnostic message is the only chunk it emitted.
C1_MaxStepsToolCalls ==
  \A r \in Requests :
    LET q == req[r]
    IN (/\ q.pc = "done"
        /\ q.n_model = Len(q.outputs)
        /\ \E d \in ExposedToolDirectives : \A i \in DOMAIN q.outputs : q.outputs[i] = d
        /\ Count(q.trace, "tool_result") = Len(q.outputs))
       => /\ q.n_tool = config.max_steps
          /\ q.chunks = <<MaxStepsMsg>>

\* a call with max_steps >= 2 that made max_steps successful calls of the
\* calculator
C1_Witness ==
  \E r \in Requests :
    /\ req[r].pc = "done"
    /\ config.max_steps >= 2
    /\ req[r].outputs = [i \in 1..config.max_steps |-> ToolCalc]
    /\ Count(req[r].trace, "tool_result") = config.max_steps
    /\ req[r].chunks = <<MaxStepsMsg>>

\* C2: once an exception has escaped a loop step, the call only has its
\* apology left to emit: its session holds exactly one error event, the
\* apology is the last chunk and the only apology, and the call ends as
\* an ordinary return with that apology.
C2_StepExceptionRecovered ==
  \A r \in Requests :
    LET q == req[r]
    IN q.step_error # NoExc
       => /\ q.pc \in {"yield", "done"}
          /\ q.pc = "yield" => (q.after = "apology" /\ q.pending = <<>>)
          /\ q.pc = "done" => q.outcome = "apology"
          /\ Count(SessionTypes(q), "error") = 1
          /\ q.chunks # <<>>
          /\ q.chunks[Len(q.chunks)] = Apology(q.step_error)
          /\ Count(q.chunks, Apology(q.step_error)) = 1

\* the model backend failed on the second step, and the call is over
C2_Witness ==
  \E r \in Requests :
    /\ req[r].pc = "done"
    /\ req[r].step_error.type = "HTTPError"
    /\ req[r].n_model = 2
    /\ Len(req[r].outputs) = 1

\* C3: a call never invokes the model more than max_steps times, and, as
\* every collaborator call returns or fails and the consumer keeps reading,
\* whenever a call is under way there comes a time when none is.
C3_Terminates ==
  /\ [](\A r \in Requests : req[r].n_model <= config.max_steps)
  /\ (InFlight # {}) ~> (InFlight = {})

\* a call that is over after max_steps >= 2 model invocations, one of whose
\* delegations failed
C3_Witness ==
  \E r \in Requests :
    /\ req[r].pc = "done"
    /\ config.max_steps >= 2
    /\ req[r].n_model = config.max_steps
    /\ Count(req[r].trace, "delegation_error") >= 1

\* C4: a call with a single user utterance whose model outputs were a
\* tool-call directive for an exposed tool, which succeeded, and then plain
\* text made exactly 2 model invocations and 1 tool invocation, and its
\* session holds exactly user_message, tool_call, tool_result,
\* agent_response in this order.
C4_ToolScenario ==
  \A r \in Requests :
    LET q == req[r]
    IN (/\ q.pc = "done"
        /\ q.message.is_str
        /\ Len(q.outputs) = 2
        /\ q.outputs[1] \in ExposedToolDirectives
        /\ q.outputs[2] \in PlainTexts
        /\ Count(q.trace, "tool_result") = 1)
       => /\ q.n_model = 2
          /\ q.n_tool = 1
          /\ SessionTypes(q) = <<"user_message", "tool_call", "tool_result",
                                 "agent_response">>

\* the calculator scenario has run
C4_Witness ==
  \E r \in Requests :
    /\ req[r].pc = "done"
    /\ req[r].message.is_str
    /\ req[r].outputs = <<ToolCalc, Hello>>
    /\ Count(req[r].trace, "tool_result") = 1

\* C5 as stated: in every step whose model output carries a delegate
\* directive with a non-empty peer name and task and no tool-call directive,
\* whatever the peer name, a delegation_request event and then exactly one
\* of delegation_response and delegation_error are appended before the next
\* model invocation.
C5_AnyPeerName ==
  \A r \in Requests :
    \A n \in DOMAIN req[r].outputs :
      (StepOver(req[r], n) /\ req[r].outputs[n] \in DelegateDirectives)
      => RequestThenOutcome(StepTrace(req[r], n))

\* C5: in every step whose model output carries a delegate directive with a
\* text for a peer name and a text for a task and no tool-call directive: when
\* the name is that of a configured peer, a delegation_request event and then
\* exactly one of delegation_response and delegation_error are appended
\* before the next model invocation; when it is not, no delegation event is
\* appended, no peer is invoked and the loop goes on.
C5_ConfiguredPeer ==
  \A r \in Requests :
    \A n \in DOMAIN req[r].outputs :
      LET q == req[r]
          st == StepTrace(q, n)
      IN (StepOver(q, n) /\ q.outputs[n] \in TextDelegateDirectives)
         => IF q.outputs[n] \in ToConfiguredPeer
            THEN RequestThenOutcome(st)
            ELSE DelegationEvents(st) = <<>> /\ Count(st, "peer") = 0 /\ WentOn(q, n)

\* a step delegated to the configured peer, which failed, and a step named
\* a peer that is not configured
C5_Witness ==
  \E r \in Requests :
    \E n, m \in DOMAIN req[r].outputs :
      /\ StepOver(req[r], n) /\ StepOver(req[r], m)
      /\ req[r].outputs[n] = DelegWorker
      /\ DelegationEvents(StepTrace(req[r], n)) = <<"delegation_request", "delegation_error">>
      /\ req[r].outputs[m] = DelegNobody

\* the peer of request r fails in this step: its discovery or its request
PeerFails(r) ==
  /\ req[r].pc \in {"deleg_init", "deleg_req"}
  /\ req'[r] # req[r]
  /\ ~sub_agents'[req[r].agent_name]._active

\* C6: when the peer invocation fails, in discovery or in the request, the
\* only event appended is delegation_error, the working conversation grows by
\* the model's text and the failure notice, the loop goes on to its next
\* step, and no exception leaves the step and no error event is recorded.
C6_PeerFailureFolded ==
  [][\A r \in Requests :
       PeerFails(r) =>
         LET q == req[r]
             p == req'[r]
             notice == p.messages[Len(p.messages)]
         IN /\ EventsOnly(SubSeq(p.trace, Len(q.trace) + 1, Len(p.trace)))
                 = <<"delegation_error">>
            /\ Len(p.messages) = Len(q.messages) + 2
            /\ SubSeq(p.messages, 1, Len(q.messages)) = q.messages
            /\ p.messages[Len(p.messages) - 1] = Msg("assistant", q.content)
            /\ notice.role = "user"
            /\ SubSeq(notice.content, 1, 2) = <<W("Agent response:"), W("[Delegation failed:")>>
            /\ p.step = q.step + 1
            /\ p.pc = "model" \/ (p.pc = "yield" /\ p.after = "maxsteps")
            /\ p.step_error = NoExc
            /\ Count(SessionTypes(p), "error") = 0]_vars

\* the peer has failed and the loop has invoked the model again
C6_Witness ==
  \E r \in Requests :
    /\ req[r].pc = "model"
    /\ req[r].n_model = 2
    /\ EventsOnly(req[r].trace)[Len(EventsOnly(req[r].trace))] = "delegation_error"
    /\ ~sub_agents["worker"]._active

\* C7: a call with a single user utterance whose model outputs were a
\* delegate directive for a configured peer, none of whose delegations failed,
\* and then plain text leaves exactly user_message, delegation_request,
\* delegation_response, agent_response in its session, in this order, and
\* the peer handle, inactive at first, active.
C7_DelegationScenario ==
  \A r \in Requests :
    LET q == req[r]
    IN (/\ q.pc = "done"
        /\ q.message.is_str
        /\ Len(q.outputs) = 2
        /\ q.outputs[1] \in ToConfiguredPeer
        /\ q.outputs[2] \in PlainTexts
        /\ Count(q.trace, "delegation_error") = 0)
       => /\ SessionTypes(q) = <<"user_message", "delegation_request",
                                 "delegation_response", "agent_response">>
          /\ sub_agents["worker"]._active

\* the worker scenario has run
C7_Witness ==
  \E r \in Requests :
    /\ req[r].pc = "done"
    /\ req[r].message.is_str
    /\ req[r].outputs = <<DelegWorker, Hello>>
    /\ Count(req[r].trace, "delegation_response") = 1
    /\ sub_agents["worker"]._active

\* the step took its model output for the final response
TakenAsFinal(q, n) ==
  LET events == SessionEvents(memory, q.session_id)
  IN /\ EventsOnly(StepTrace(q, n)) = <<"agent_response">>
     /\ events # <<>>
     /\ events[Len(events)].event_type = "agent_response"
     /\ events[Len(events)].content = q.outputs[n]
     /\ Count(StepTrace(q, n), "tool") = 0
     /\ Count(StepTrace(q, n), "peer") = 0
     /\ n = q.n_model
     /\ q.after = "final"

CeilFourFifths(m) == (8 * m + 9) \div 10

\* floor(0.8 * m)
FloorFourFifths(m) == (8 * m) \div 10

\* the events of session s are the last ones appended to it, in their order
MostRecent(s) ==
  LET appended == journal.appended[s.session_id]
  IN /\ Len(s.events) <= Len(appended)
     /\ s.events = SubSeq(appended, Len(appended) - Len(s.events) + 1, Len(appended))

\* C9 as stated: for every max_events_per_session = M >= 1, a fresh session
\* to which M + 1 events were appended holds exactly ceil(0.8 * M) events, the
\* most recently appended ones in their order.
C9_CeilOfFourFifths ==
  \A i \in DOMAIN memory.sessions :
    LET s == memory.sessions[i]
    IN Len(journal.appended[s.session_id]) = memory.max_events_per_session + 1
       => /\ Len(s.events) = CeilFourFifths(memory.max_events_per_session)
          /\ MostRecent(s)

\* C9: for every max_events_per_session = M >= 2, a fresh session to which
\* M + 1 events were appended holds exactly floor(0.8 * M) + 1 events, the
\* most recently appended ones in their order; for M = 1 it holds both.
C9_FloorOfFourFifthsPlusOne ==
  \A i \in DOMAIN memory.sessions :
    LET s == memory.sessions[i]
        M == memory.max_events_per_session
    IN Len(journal.appended[s.session_id]) = M + 1
       => /\ Len(s.events) = IF M = 1 THEN 2 ELSE FloorFourFifths(M) + 1
          /\ MostRecent(s)

\* six events were appended to a session capped at five
C9_Witness ==
  \E i \in DOMAIN memory.sessions :
    /\ memory.max_events_per_session = 5
    /\ Len(journal.appended[memory.sessions[i].session_id]) = 6
    /\ Len(memory.sessions[i].events) = 5

\* the last call created a session while the store held max_sessions sessions
CreatedWhenFull ==
  /\ \/ journal.last.op = "create_session"
     \/ journal.last.op = "get_or_create_session" /\ journal.last.ok
  /\ Len(journal.last.before) >= memory.max_sessions

\* C10: when a session is created while the store holds at least
\* max_sessions sessions, a tenth of max_sessions (at least one) of the
\* sessions held are purged and then the new one is inserted: no purged
\* session was updated later than a surviving one, and every surviving
\* session, but one the insert replaces, is held as it was.
C10_OldestPurged ==
  CreatedWhenFull =>
    LET before == journal.last.before
        inserted == journal.last.session_id
        same == {i \in DOMAIN before : before[i].session_id = inserted}
        gone == {i \in DOMAIN before \ same : before[i].session_id \notin SessionIds(memory)}
    IN /\ inserted \in SessionIds(memory)
       /\ \E purged \in {gone, gone \cup same} :
            /\ Cardinality(purged) = Max(1, memory.max_sessions \div 10)
            /\ \A i \in purged, j \in DOMAIN before \ purged :
                 before[i].updated_at <= before[j].updated_at
            /\ \A j \in DOMAIN before \ (purged \cup same) :
                 \E k \in DOMAIN memory.sessions : memory.sessions[k] = before[j]
            /\ Len(memory.sessions) =
                 Len(before) - Cardinality(purged)
                   + (IF same \subseteq purged THEN 1 ELSE 0)

\* a session was created in a full store of TwoPurged sessions that were not
\* all updated at the same time, and two of them are gone
C10_Witness ==
  /\ CreatedWhenFull
  /\ memory.max_sessions = TwoPurged
  /\ Len(memory.sessions) = TwoPurged - 1
  /\ \E i, j \in DOMAIN journal.last.before :
       journal.last.before[i].updated_at # journal.last.before[j].updated_at

\* the sessions held under the id
HeldAs(sessions, session_id) ==
  {i \in DOMAIN sessions : sessions[i].session_id = session_id}

\* C11: get_or_create_session is idempotent: after a call the store holds
\* exactly one session with the id, and a call made with an id the store
\* already holds (the second of two calls with the same id) leaves the
\* sessions, their number and their events, as they were.
C11_GetOrCreateIdempotent ==
  journal.last.op = "get_or_create_session" =>
    /\ Cardinality(HeldAs(memory.sessions, journal.last.session_id)) = 1
    /\ HeldAs(journal.last.before, journal.last.session_id) # {}
         => memory.sessions = journal.last.before

\* the last call was a get-or-create with the id of a session that an earlier
\* get-or-create made (app_name "agent") and that holds an event since
C11_Witness ==
  /\ journal.last.op = "get_or_create_session"
  /\ \E i \in HeldAs(journal.last.before, journal.last.session_id) :
       /\ journal.last.before[i].app_name = "agent"
       /\ journal.last.before[i].events # <<>>

\* the lists of event types the accessor is asked for
TypeFilters ==
  { <<>>, <<"user_message">>, <<"agent_response">>, <<"tool_call">>,
    <<"agent_response", "user_message">> }

\* the events of a sequence whose type is one of the listed ones, in order
OfTypes(events, types) ==
  SelectSeq(events, LAMBDA e : \E k \in DOMAIN types : types[k] = e.event_type)

\* no event appended to the session was trimmed away
BelowCap(session_id) ==
  Len(journal.appended[session_id]) <= memory.max_events_per_session

\* C12: for a session to which no more events were appended than the cap
\* allows, get_session_events without a filter returns the appended events
\* (same type and content) in append order, and with a list of types it
\* returns exactly the appended events of the listed types, in append order.
C12_RoundTrip ==
  \A s \in SessionIds(memory) :
    BelowCap(s) =>
      /\ get_session_events(memory, s, <<>>) = journal.appended[s]
      /\ \A types \in TypeFilters :
           get_session_events(memory, s, <<types>>) = OfTypes(journal.appended[s], types)

\* what the accessor does meet: the same, for the lists that name a type
NamedTypesRoundTrip ==
  \A s \in SessionIds(memory) :
    BelowCap(s) =>
      /\ get_session_events(memory, s, <<>>) = journal.appended[s]
      /\ \A types \in TypeFilters \ {<<>>} :
           get_session_events(memory, s, <<types>>) = OfTypes(journal.appended[s], types)

\* a session below its cap holds events of both types
C12_Witness ==
  \E s \in SessionIds(memory) :
    /\ BelowCap(s)
    /\ OfTypes(get_session_events(memory, s, <<>>), <<"user_message">>) # <<>>
    /\ OfTypes(get_session_events(memory, s, <<>>), <<"agent_response">>) # <<>>

\* sequence s is the beginning of sequence t
IsPrefix(s, t) == Len(s) <= Len(t) /\ s = SubSeq(t, 1, Len(s))

\* this step is the start of a call by request r
Starts(r) == req[r].pc = "idle" /\ req'[r].pc # "idle"

\* C13: a call made without a session id gets a session whose id no session
\* held before has; a call made with an id gets the session of that id, which
\* is created if the store does not hold it; either way the store holds one
\* session more only if the id was not held, every event a call logs goes to
\* its session, and every session already held keeps its place and its
\* events, to which later events are only ever appended.
C13_SessionOfCall ==
  [][ /\ \A r \in Requests :
           Starts(r) =>
             LET q == req'[r]
                 held == q.session_id \in SessionIds(memory)
             IN /\ q.given = "" => ~held
                /\ q.given # "" => q.session_id = q.given
                /\ Cardinality(HeldAs(memory'.sessions, q.session_id)) = 1
                /\ Len(memory'.sessions) = Len(memory.sessions) + (IF held THEN 0 ELSE 1)
      /\ \A i \in DOMAIN memory.sessions :
           /\ i \in DOMAIN memory'.sessions
           /\ memory'.sessions[i].session_id = memory.sessions[i].session_id
           /\ IsPrefix(memory.sessions[i].events, memory'.sessions[i].events)
      /\ \A r \in Requests, i \in DOMAIN memory'.sessions :
           LET ids == {req'[r].logged[k].event_id : k \in DOMAIN req'[r].logged}
               s == memory'.sessions[i]
           IN \A k \in DOMAIN s.events :
                s.events[k].event_id \in ids => s.session_id = req'[r].session_id
    ]_vars

\* a call over, another was made with the same given id: its events follow
\* the first call's in the one session the store holds
C13_Witness ==
  /\ req["r1"].pc = "done" /\ req["r2"].pc = "done"
  /\ req["r1"].given = "a" /\ req["r2"].given = "a"
  /\ ~config.concurrent
  /\ Len(memory.sessions) = 1
  /\ Len(memory.sessions[1].events) = Len(req["r1"].logged) + Len(req["r2"].logged)
  /\ Len(req["r2"].logged) >= 2

\* the ids of the events request record q logged, in the order of its steps
LoggedIds(q) == [k \in DOMAIN q.logged |-> q.logged[k].event_id]

\* the events of q's session that q logged, in the order the session holds them
OwnEvents(q) ==
  LET ids == {q.logged[k].event_id : k \in DOMAIN q.logged}
  IN SelectSeq(SessionEvents(memory, q.session_id), LAMBDA e : e.event_id \in ids)

InputTypes == {"user_message", "task_delegation_received"}

\* input events first, a tool_result right after its tool_call, a
\* delegation_response or delegation_error right after its
\* delegation_request, an agent_response or error last
StepOrder(T) ==
  \A i \in DOMAIN T :
    /\ T[i] \in InputTypes => \A j \in 1..(i - 1) : T[j] \in InputTypes
    /\ T[i] = "tool_result" => i > 1 /\ T[i - 1] = "tool_call"
    /\ T[i] \in {"delegation_response", "delegation_error"}
         => i > 1 /\ T[i - 1] = "delegation_request"
    /\ T[i] \in {"agent_response", "error"} => i = Len(T)

\* C14: whatever other requests do in between, the events a call logged are
\* held by its session in the order of the call's steps, and that order has
\* the input events first, then per step a tool_call before its tool_result
\* and a delegation_request before its delegation_response or
\* delegation_error, and an agent_response or error last.
C14_OwnEventsInStepOrder ==
  \A r \in Requests :
    LET own == OwnEvents(req[r])
    IN /\ [k \in DOMAIN own |-> own[k].event_id] = LoggedIds(req[r])
       /\ TypesOf(own) = [k \in DOMAIN req[r].logged |-> req[r].logged[k].event_type]
       /\ StepOrder(TypesOf(own))

\* two overlapping calls on one session: the events of the one, a tool call
\* and its result among them, are held with events of the other in between
C14_Witness ==
  /\ req["r1"].pc = "done" /\ req["r2"].pc = "done"
  /\ req["r1"].session_id = req["r2"].session_id
  /\ LET held == SessionEvents(memory, req["r1"].session_id)
         own == {i \in DOMAIN held :
                   \E k \in DOMAIN req["r1"].logged :
                     req["r1"].logged[k].event_id = held[i].event_id}
     IN /\ \E i \in own : held[i].event_type = "tool_result"
        /\ \E i, j \in own : i < j /\ \E m \in (i + 1)..(j - 1) : m \notin own

\* the call of request record q handed a chunk to its consumer
HandedChunk(q) == q.chunks # <<>>

\* C15: every event of a call, the agent_response of a final answer
\* included, is in its session before the first chunk is handed over: from
\* the first chunk on the call logs nothing and the sessions stay as they
\* are, whether the consumer reads on or closes the generator after any chunk.
C15_EventsBeforeFirstChunk ==
  [][\A r \in Requests :
       HandedChunk(req[r]) =>
         /\ req'[r].logged = req[r].logged
         /\ InFlight \subseteq {r} => memory'.sessions = memory.sessions
         /\ req[r].after = "final" =>
              /\ req[r].logged # <<>>
              /\ req[r].logged[Len(req[r].logged)].event_type = "agent_response"
              /\ TypesOf(SessionEvents(memory, req[r].session_id))
                   = [k \in DOMAIN req[r].logged |-> req[r].logged[k].event_type]
    ]_vars

\* a streamed answer of two words was closed after its first chunk, and the
\* session holds the agent_response
C15_Witness ==
  \E r \in Requests :
    /\ req[r].stream /\ req[r].pc = "done"
    /\ req[r].outcome = "final"
    /\ Len(req[r].chunks) = 1 /\ req[r].pending # <<>>
    /\ Count(SessionTypes(req[r]), "agent_response") = 1

\* the ids of the events a sequence of events holds
IdsOf(events) == {events[k].event_id : k \in DOMAIN events}

Moves(r) == req'[r] # req[r]

\* this step of request r is an invoke of a peer handle: the call of
\* RemoteAgent.process_message
Invokes(r) == req[r].pc = "model" /\ req'[r].pc \in {"deleg_init", "deleg_req"}

\* C17: a peer handle starts inactive. A card fetch leaves it active if it
\* succeeded and inactive if it failed, and a failed invocation leaves it
\* inactive. An invoke on an inactive handle fetches the card first and sends
\* the invocation only once that fetch has succeeded; an invoke on an active
\* handle sends the invocation without a fetch.
C17_PeerHandleLifecycle ==
  /\ \A n \in DOMAIN sub_agents : ~sub_agents[n]._active
  /\ [][\A r \in Requests :
          Moves(r) =>
            LET q == req[r]
                after == req'[r]
            IN /\ q.pc = "peer_init" =>
                    LET h == sub_agents'[config.peer_order[q.idx]]
                    IN h.last.op = "fetch" /\ h._active = h.last.ok
               /\ q.pc = "deleg_init" =>
                    LET h == sub_agents'[q.agent_name]
                    IN /\ h.last.op = "fetch" /\ h._active = h.last.ok
                       /\ (after.pc = "deleg_req") = h.last.ok
                       /\ after.n_peer = q.n_peer + (IF h.last.ok THEN 1 ELSE 0)
               /\ q.pc = "deleg_req" =>
                    LET h == sub_agents'[q.agent_name]
                    IN /\ h.last.op = "send"
                       /\ ~h.last.ok => ~h._active
               /\ Invokes(r) =>
                    LET was == sub_agents[after.agent_name]._active
                    IN /\ sub_agents' = sub_agents
                       /\ (after.pc = "deleg_init") = ~was
                       /\ after.n_fetch = q.n_fetch + (IF was THEN 0 ELSE 1)
                       /\ after.n_peer = q.n_peer + (IF was THEN 1 ELSE 0)
       ]_vars

\* the card was fetched for the prompt, the first invoke, on the active
\* handle, was sent without a fetch and failed, and the next invoke fetched
\* the card again and was sent
C17_Witness ==
  \E r \in Requests :
    LET events == DelegationEvents(req[r].trace)
    IN /\ Len(events) >= 4
       /\ events[2] = "delegation_error" /\ events[4] = "delegation_response"
       /\ req[r].n_peer = 2
       /\ req[r].n_fetch = 2

\* C18 as stated: whatever the interleaving of the requests that share a
\* peer handle, the handle is active if the invocation of it that completed
\* last succeeded and inactive if that invocation failed.
C18_LastInvocationWins ==
  \A n \in DOMAIN sub_agents :
    /\ sub_agents[n].invoked = "ok" => sub_agents[n]._active
    /\ sub_agents[n].invoked = "failed" => ~sub_agents[n]._active

\* C18: whatever the interleaving of the requests that share a peer handle,
\* the assignment made last wins: the handle is active exactly when the last
\* to complete among the fetches of its card and its failed invocations was a
\* fetch that succeeded; an invocation that succeeds leaves the flag as it is.
C18_LastAssignmentWins ==
  \A n \in DOMAIN sub_agents :
    sub_agents[n]._active = (sub_agents[n].set_by = Outcome("fetch", TRUE))

\* two requests had their invocations of "worker" in flight together: the one
\* failed, the other succeeded after it, and the handle is inactive
C18_Witness ==
  /\ config.concurrent
  /\ req["r1"].pc = "done" /\ req["r2"].pc = "done"
  /\ req["r1"].n_peer = 1 /\ req["r2"].n_peer = 1
  /\ sub_agents["worker"].last = Outcome("send", TRUE)
  /\ sub_agents["worker"].set_by = Outcome("send", FALSE)
  /\ ~sub_agents["worker"]._active

\* the peer whose card fetch or invocation request record q awaits, "" if none
AwaitedPeer(q) ==
  IF q.pc = "peer_init" THEN config.peer_order[q.idx]
  ELSE IF q.pc \in {"deleg_init", "deleg_req"} THEN q.agent_name
  ELSE ""

\* C19: a request changes no handle but that of the peer whose card fetch or
\* invocation it awaits: while a request is suspended on the invocation of a
\* peer, the discovery, the invocation and the completion of a delegation to
\* a different peer by another request leave the handle of the slow peer as
\* it is, and the slow peer's eventual answer or failure leaves the other
\* handle as it is. (That the other request can complete its delegation
\* meanwhile is the state C19_Witness describes.)
C19_OtherHandlesUntouched ==
  [][\A r \in Requests :
       Moves(r) =>
         \A n \in DOMAIN sub_agents \ {AwaitedPeer(req[r])} :
           sub_agents'[n] = sub_agents[n]
    ]_vars

\* while a request is suspended on the invocation of "worker", another
\* request, started after that invocation was sent, had the card of "helper"
\* fetched, delegated to "helper" and is over with the response recorded;
\* "helper" is active and "worker" as it was
C19_Witness ==
  \E r, other \in Requests :
    /\ req[r].pc = "deleg_req" /\ req[r].agent_name = "worker"
    /\ req[other].pc = "done" /\ req[other].agent_name = "helper"
    /\ req[other].n_fetch >= 1 /\ req[other].n_peer = 1
    /\ Count(req[other].trace, "delegation_response") = 1
    /\ req[other].logged[1].event_id > req[r].logged[Len(req[r].logged)].event_id
    /\ sub_agents["helper"]._active
    /\ sub_agents["helper"].invoked = "ok"
    /\ sub_agents["worker"] = Discovered({"worker"})["worker"]

\* the entries a step of request r added to its trace
Added(r) == SubSeq(req'[r].trace, Len(req[r].trace) + 1, Len(req'[r].trace))

\* this step of request r is the failure of a tool: the model named a tool
\* and no provider was called (none exposes it, or the directive names none
\* that can be looked up), or the provider called could not be reached, does
\* not expose the tool after all, or failed the call
ToolFails(r) ==
  /\ Moves(r)
  /\ \/ /\ req[r].pc = "model"
        /\ Added(r) # <<>> /\ Added(r)[1] = "tool_call"
        /\ req'[r].pc \notin {"tool_init", "tool_call"}
     \/ /\ req[r].pc = "tool_init"
        /\ req'[r].pc # "tool_call"
     \/ /\ req[r].pc = "tool_call"
        /\ ~mcp_clients'[req[r].idx]._active

\* C20: when a tool fails, because no provider exposes the named tool or
\* because the provider call fails, the step records nothing but the
\* tool_call it had recorded before the attempt (no tool_result, no error),
\* the working conversation grows by the model's text and a notice of the
\* failure, the loop goes on to its next step (the report of the step limit
\* if that was the last), and no exception leaves the step.
C20_ToolFailureFolded ==
  [][\A r \in Requests :
       ToolFails(r) =>
         LET q == req[r]
             p == req'[r]
             notice == p.messages[Len(p.messages)]
         IN /\ EventsOnly(Added(r))
                 = IF q.pc = "model" THEN <<"tool_call">> ELSE <<>>
            /\ Count(SessionTypes(p), "tool_result") = Count(SessionTypes(q), "tool_result")
            /\ Count(SessionTypes(p), "error") = 0
            /\ Len(p.messages) = Len(q.messages) + 2
            /\ SubSeq(p.messages, 1, Len(q.messages)) = q.messages
            /\ p.content = p.outputs[Len(p.outputs)]
            /\ p.messages[Len(p.messages) - 1] = Msg("assistant", p.content)
            /\ notice.role = "user"
            /\ notice.content[1] = W("Tool execution failed:")
            /\ p.step = q.step + 1
            /\ p.pc = "model" \/ (p.pc = "yield" /\ p.after = "maxsteps")
            /\ p.step_error = NoExc]_vars

\* the model named a tool no provider exposes and then one whose provider
\* failed the call; the step limit is reported
C20_Witness ==
  \E r \in Requests :
    /\ req[r].outputs = <<ToolGhost, ToolCalc>>
    /\ req[r].n_tool = 1
    /\ ~mcp_clients[1]._active
    /\ req[r].pc = "yield" /\ req[r].after = "maxsteps"
    /\ EventsOnly(req[r].trace) = <<"user_message", "tool_call", "tool_call">>

\* the call of request record q is over and ended by reporting the step limit
ExhaustedSteps(q) == q.pc = "done" /\ q.outcome = "maxsteps"

RequestSucceeded == [name |-> "request", success |-> TRUE]

\* C21: a call that exhausted max_steps ended as a designed termination: it
\* recorded no error event, no exception left it, and its request span was
\* ended, once and last of all its spans, with the success label.
C21_MaxStepsIsSuccess ==
  \A r \in Requests :
    LET q == req[r]
    IN ExhaustedSteps(q)
       => /\ Count(TypesOf(q.logged), "error") = 0
          /\ Count(SessionTypes(q), "error") = 0
          /\ q.step_error = NoExc /\ ~q.raised
          /\ q.spans_ended # <<>>
          /\ q.spans_ended[Len(q.spans_ended)] = RequestSucceeded
          /\ Count(q.spans_ended, RequestSucceeded) = 1
          /\ q.stack = <<>>

\* what holds of every call that exhausted max_steps: no error event, no
\* exception, and no span ended with the failure label unless a tool failed
MaxStepsIsNoError ==
  \A r \in Requests :
    LET q == req[r]
    IN ExhaustedSteps(q)
       => /\ Count(TypesOf(q.logged), "error") = 0
          /\ Count(SessionTypes(q), "error") = 0
          /\ q.step_error = NoExc /\ ~q.raised
          /\ q.chunks = <<MaxStepsMsg>>

\* a call of one step whose model output named the calculator with arguments
\* that are no object: the step limit was reported and the request span is
\* still open
C21_Witness ==
  \E r \in Requests :
    /\ ExhaustedSteps(req[r])
    /\ req[r].outputs = <<ToolBadArgs>>
    /\ req[r].chunks = <<MaxStepsMsg>>
    /\ Len(req[r].stack) = 1 /\ req[r].stack[1].name = "request"
    /\ RequestSucceeded \notin {req[r].spans_ended[i] : i \in DOMAIN req[r].spans_ended}

\* the last n elements of s, for n >= 0
Trailing(s, n) == SubSeq(s, Max(1, Len(s) - n + 1), Len(s))

\* the messages of the working conversation that are not system messages
NonSystem(messages) ==
  FilterIdx(messages, {i \in DOMAIN messages : messages[i].role # "system"})

\* request record q waits for the peer it delegated to
Delegating(q) == q.pc \in {"deleg_init", "deleg_req"}

\* the message list a delegation of request record q is to carry under a
\* memory_context_limit of limit
ContextAndTask(q, limit) ==
  Trailing(NonSystem(q.messages), limit)
    \o <<Msg("task-delegation", <<Mem("task", DirectiveTask(q.content))>>)>>

\* C22: for every memory_context_limit L >= 0, the message list sent to the
\* peer is the last L non-system messages of the working conversation, in
\* order, followed by one task-delegation message carrying the task: at most
\* L + 1 messages.
C22_TrailingContext ==
  \A r \in Requests :
    LET q == req[r]
    IN Delegating(q)
       => /\ Len(q.sent) <= config.memory_context_limit + 1
          /\ q.sent = ContextAndTask(q, config.memory_context_limit)

\* what holds for every limit: with L >= 1 the list is as C22 says, with
\* L = 0 it is the whole non-system conversation followed by the task
SentContext ==
  \A r \in Requests :
    LET q == req[r]
        limit == config.memory_context_limit
    IN Delegating(q)
       => q.sent = ContextAndTask(q, IF limit = 0 THEN Len(q.messages) ELSE limit)

\* an agent with memory_context_limit 0 delegated on its second step: the
\* peer is sent the three messages of the conversation and the task
C22_Witness ==
  \E r \in Requests :
    /\ config.memory_context_limit = 0
    /\ req[r].pc = "deleg_req"
    /\ req[r].outputs = <<ToolCalc, DelegWorker>>
    /\ Len(req[r].sent) = 4
    /\ req[r].sent[1] = Msg("user", <<W("What is 5 + 3?")>>)
    /\ req[r].sent[4].role = "task-delegation"

\* the positions of a text at which a whitespace-separated word begins; a
\* fence line is set off from its neighbours by its line breaks
WordStarts(content) ==
  {i \in DOMAIN content :
     /\ content[i].t # "S"
     /\ i = 1 \/ content[i - 1].t = "S" \/ IsFence(content[i - 1]) \/ IsFence(content[i])}

\* the word that begins at position a
WordAt(content, a) ==
  LET ends == {j \in a..Len(content) :
                 j = Len(content) \/ content[j + 1].t = "S" \/ IsFence(content[j + 1])
                   \/ IsFence(content[j])}
  IN SubSeq(content, a, MinOf(ends))

\* the words of a text in order, each followed by one separator
WordChunks(content) ==
  LET starts == WordStarts(content)
      Nth(i) == CHOOSE a \in starts : Cardinality({b \in starts : b < a}) = i - 1
  IN [i \in 1..Cardinality(starts) |-> Append(WordAt(content, Nth(i)), Tok("S"))]

\* request record q is emitting a final response, or has emitted it
EmitsFinal(q) ==
  \/ q.pc = "yield" /\ q.after = "final"
  \/ q.pc = "done" /\ q.outcome = "final"

\* the consumer of q read the response to its end
ReadToEnd(q) == q.pc = "done" /\ q.outcome = "final" /\ q.pending = <<>>

\* C23: with streaming on, the final content is emitted as one chunk per
\* whitespace-separated word, in order, each word followed by one separator
\* ("hello world" gives "hello " and "world "); with streaming off it is
\* emitted as exactly one chunk equal to the content.
C23_ChunksOfFinalContent ==
  \A r \in Requests :
    LET q == req[r]
    IN EmitsFinal(q)
       => /\ q.content = q.outputs[Len(q.outputs)]
          /\ IF q.stream
             THEN /\ IsPrefix(q.chunks, WordChunks(q.content))
                  /\ q.pc = "yield" => q.chunks # <<>>
                  /\ ReadToEnd(q) => q.chunks = WordChunks(q.content)
             ELSE q.chunks = <<q.content>>

\* a streaming consumer read the answer "hello world" to its end
C23_Witness ==
  \E r \in Requests :
    /\ ReadToEnd(req[r])
    /\ req[r].stream
    /\ req[r].content = Hello
    /\ req[r].chunks = << <<W("hello"), Tok("S")>>, <<W("world"), Tok("S")>> >>

\* the event process_message logs for an input message of the role, if any
InputEvent(role) ==
  IF role = "user" THEN "user_message"
  ELSE IF role = "task-delegation" THEN "task_delegation_received"
  ELSE ""

\* the messages of a role-tagged list that are no system messages
TakenIn(list) == FilterIdx(list, {i \in DOMAIN list : list[i].role # "system"})

\* ... and those an event is logged for
LoggedInput(list) ==
  FilterIdx(list, {i \in DOMAIN list : InputEvent(list[i].role) # ""})

\* request record q was given a role-tagged list and has taken it in
TookInList(q) == ~q.message.is_str /\ q.messages # <<>>

\* C24: for a role-tagged input list, every non-system message is appended to
\* the working conversation in input order (a task-delegation message as a
\* user message), one user_message event is logged per user-role message and
\* one task_delegation_received event per task-delegation message, in input
\* order, and a system message is neither appended as input nor logged.
C24_RoleTaggedInput ==
  \A r \in Requests :
    LET q == req[r]
        taken == TakenIn(q.message.list)
        recorded == LoggedInput(q.message.list)
        events == SessionEvents(memory, q.session_id)
    IN TookInList(q)
       => /\ Len(q.messages) >= 1 + Len(taken)
          /\ q.messages[1].role = "system"
          /\ \A i \in DOMAIN taken :
               /\ q.messages[1 + i].content = taken[i].content
               /\ q.messages[1 + i].role = IF taken[i].role = "task-delegation"
                                           THEN "user" ELSE taken[i].role
          /\ \A i \in 2..Len(q.messages) : q.messages[i].role # "system"
          /\ Len(events) >= Len(recorded) /\ Len(q.logged) >= Len(recorded)
          /\ \A i \in DOMAIN recorded :
               /\ events[i].event_type = InputEvent(recorded[i].role)
               /\ events[i].content = recorded[i].content
               /\ q.logged[i].event_id = events[i].event_id
          /\ \A i \in DOMAIN events :
               events[i].event_type \in {"user_message", "task_delegation_received"}
                 => i <= Len(recorded)

\* a list with two system messages, two user messages, two task delegations
\* and a tool message was taken in: six messages in the conversation, four
\* events in the session
C24_Witness ==
  \E r \in Requests :
    /\ TookInList(req[r])
    /\ Len(req[r].message.list) = 7
    /\ req[r].pc = "model" /\ req[r].n_model = 1
    /\ Len(req[r].messages) = 6
    /\ SessionTypes(req[r]) = <<"user_message", "task_delegation_received",
                                "task_delegation_received", "user_message">>

\* the providers whose discovered tools contain the name, at this moment
Listing(tool_name) == {i \in DOMAIN mcp_clients : tool_name \in mcp_clients[i]._tools}

\* this step of the system issues a provider call for request r
IssuesToolCall(r) == req'[r].n_tool = req[r].n_tool + 1

\* C25: in one loop step the engine issues at most one provider call, to the
\* first configured provider whose discovered tools contain the named tool,
\* and does not issue it again within the step, whether it succeeds or fails.
C25_OneToolCallPerStep ==
  /\ [](\A r \in Requests :
          \A n \in 1..req[r].n_model :
            Count(StepTrace(req[r], n), "tool") <= 1)
  /\ [][\A r \in Requests :
          /\ req'[r].n_tool \in {req[r].n_tool, req[r].n_tool + 1}
          /\ IssuesToolCall(r)
             => /\ req[r].pc = "model"
                /\ req'[r].n_model = req[r].n_model
                /\ req'[r].pc \in {"tool_init", "tool_call"}
                /\ Listing(req'[r].tool_name) # {}
                /\ req'[r].idx = MinOf(Listing(req'[r].tool_name))
          /\ (Moves(r) /\ req[r].pc \in {"tool_init", "tool_call"})
             => /\ req'[r].n_tool = req[r].n_tool
                /\ req'[r].pc = "tool_call"
                   => (req[r].pc = "tool_init" /\ req'[r].n_model = req[r].n_model)
                /\ req'[r].pc \in {"tool_call", "model", "yield"}
                /\ req'[r].pc \in {"model", "yield"} => req'[r].step = req[r].step + 1]_vars

\* both providers list the calculator and the first was called, twice in two
\* steps: the first call failed and the second succeeded
C25_Witness ==
  \E r \in Requests :
    /\ req[r].outputs = <<ToolCalc, ToolCalc>>
    /\ req[r].n_tool = 2 /\ req[r].idx = 1
    /\ \A i \in DOMAIN mcp_clients : "calculator" \in mcp_clients[i]._tools
    /\ Count(StepTrace(req[r], 1), "tool") = 1
    /\ Count(StepTrace(req[r], 1), "tool_result") = 0
    /\ Count(StepTrace(req[r], 2), "tool_result") = 1

\* the call of request record q ran to completion: its generator is exhausted
Completed(q) == q.pc = "done" /\ q.pending = <<>> /\ ~q.orphaned

NamesOf(spans) == [i \in DOMAIN spans |-> spans[i].name]

\* the metric the end of a span emits: spans are begun with the metric kind
\* of their name, step spans with none
MetricOf(span) == [kind |-> span.name, success |-> span.success]

Measured(spans) == FilterIdx(spans, {i \in DOMAIN spans : spans[i].name # "step"})

\* the spans a completed call of q began, in the order their operations end:
\* per step the model span, the span of the provider or peer operation the
\* step went into, and the step span; the request span last
BegunInOrder(q) ==
  LET F[n \in 0..q.n_model] ==
        IF n = 0 THEN <<>>
        ELSE F[n - 1] \o <<"model">>
               \o (IF Count(StepTrace(q, n), "tool_call") = 1
                      /\ Truthy(DictGet(_parse_block(q.outputs[n], "tool_call").obj,
                                        "tool", Str("")))
                   THEN <<"tool">> ELSE <<>>)
               \o (IF Count(StepTrace(q, n), "tool_call") = 0
                      /\ n <= Len(q.outputs) /\ q.outputs[n] \in DelegateDirectives
                   THEN <<"delegation">> ELSE <<>>)
               \o <<"step">>
  IN F[q.n_model] \o <<"request">>

\* C26: with tracing enabled, when a call has run to completion, by whatever
\* path, every span it began has been ended exactly once, innermost first,
\* each with a metric of its own kind, and the span stack is back at the depth
\* it had when the call began.
C26_SpansBalanced ==
  \A r \in Requests :
    LET q == req[r]
    IN (otel_initialized /\ Completed(q))
       => /\ q.stack = <<>>
          /\ NamesOf(q.spans_ended) = BegunInOrder(q)
          /\ q.metrics = [i \in DOMAIN Measured(q.spans_ended) |->
                            MetricOf(Measured(q.spans_ended)[i])]

\* the model asked for a delegation whose task is a number: the call
\* apologised and is over, and its request span is still on the stack
C26_Witness ==
  \E r \in Requests :
    /\ Completed(req[r])
    /\ req[r].outputs = <<DelegNumTask>>
    /\ req[r].outcome = "apology"
    /\ NamesOf(req[r].stack) = <<"request">>
    /\ NamesOf(req[r].spans_ended) = <<"model", "delegation", "step">>

Ends == {"span_success", "span_failure"}

\* this step is a call of the telemetry API named in ops
Calls(ops) == budget'.calls < budget.calls /\ journal'.last.op \in ops

\* this step is an end of a span that follows an end which ended a span: no
\* span was begun in between, so it is a second end for the same begin
SecondEnd == journal.last.op \in Ends /\ journal.last.result /\ Calls(Ends)

\* the spans a context holds, the metrics emitted and the spans ended in it
Telemetry(q) == <<q.stack, q.metrics, q.spans_ended>>

\* C27: with tracing enabled, a second span_success or span_failure for the
\* same span_begin is a no-op: it leaves the span stack as it is (it does not
\* end the enclosing span) and emits no metric.
C27_SecondEndIsNoOp ==
  [][(otel_initialized /\ SecondEnd)
       => Telemetry(req'[Context]) = Telemetry(req[Context])]_vars

\* what holds of a second end: it is a no-op exactly when no span encloses
\* the one ended, and otherwise ends the span on top of the stack
SecondEndPopsTop ==
  [][(otel_initialized /\ SecondEnd)
       => LET q == req[Context]
              p == req'[Context]
          IN IF q.stack = <<>> THEN Telemetry(p) = Telemetry(q)
             ELSE /\ p.stack = SubSeq(q.stack, 1, Len(q.stack) - 1)
                  /\ Len(p.spans_ended) = Len(q.spans_ended) + 1
                  /\ p.spans_ended[Len(p.spans_ended)].name = q.stack[Len(q.stack)].name]_vars

\* tracing was initialised, a request span and in it a step span were begun,
\* and span_success was called twice: both spans are ended, the request span
\* with a request metric
C27_Witness ==
  /\ otel_initialized
  /\ budget.calls = MaxTelemetryCalls - 5
  /\ journal.last = [op |-> "span_success", result |-> TRUE]
  /\ req[Context].stack = <<>>
  /\ req[Context].spans_ended = <<[name |-> "step", success |-> TRUE],
                                  [name |-> "request", success |-> TRUE]>>
  /\ req[Context].metrics = <<[kind |-> "request", success |-> TRUE]>>

SpanOps == {"span_begin", "span_success", "span_failure"}

\* C28: while tracing is not initialised, span_begin, span_success and
\* span_failure are no-ops whatever calls came before: the span stack stays
\* as it is, which is empty, no metric is emitted and no span is ended.
C28_NoOpsWhileUninitialised ==
  /\ [](~otel_initialized => Telemetry(req[Context]) = <<<<>>, <<>>, <<>>>>)
  /\ [][(~otel_initialized /\ Calls(SpanOps))
          => /\ req' = req
             /\ ~otel_initialized'
             /\ journal'.last.op \in Ends => ~journal'.last.result]_vars

\* a process whose init_otel was refused made six calls, the last an end of a
\* span
C28_Witness ==
  /\ ~otel_initialized
  /\ budget.calls = 0
  /\ journal.last = [op |-> "span_failure", result |-> FALSE]
  /\ environ.OTEL_SERVICE_NAME = "agent" /\ environ.OTEL_EXPORTER_OTLP_ENDPOINT = ""
  /\ req[Context].stack = <<>>

C30_AtMostMaxEvents ==
  \A i \in DOMAIN memory.sessions :
    Len(memory.sessions[i].events) <= memory.max_events_per_session

\* what holds for every M: a session holds at most M events when M >= 2, and
\* every event ever appended to it when M = 1
EventsWithinCapFromTwo ==
  \A i \in DOMAIN memory.sessions :
    LET s == memory.sessions[i]
    IN IF memory.max_events_per_session >= 2
       THEN Len(s.events) <= memory.max_events_per_session
       ELSE s.events = journal.appended[s.session_id]

\* two events were appended to a session of a store with
\* max_events_per_session = 1, and the session holds both
C30_Witness ==
  \E i \in DOMAIN memory.sessions :
    /\ memory.max_events_per_session = 1
    /\ journal.last.op = "add_event" /\ journal.last.ok
    /\ Len(journal.appended[memory.sessions[i].session_id]) = 2
    /\ Len(memory.sessions[i].events) = 2

\* C31: for every max_sessions = N >= 1, in every reachable state the store
\* holds at most N sessions, one per id, whatever sequence of create,
\* get-or-create, delete and cleanup operations was made.
C31_AtMostMaxSessions ==
  /\ Len(memory.sessions) <= memory.max_sessions
  /\ Cardinality(SessionIds(memory)) = Len(memory.sessions)

\* a session was created by get-or-create in a full store of
\* MaxSessionsBound sessions, and the store is full again
C31_Witness ==
  /\ journal.last.op = "get_or_create_session" /\ journal.last.ok
  /\ memory.max_sessions = MaxSessionsBound
  /\ Len(journal.last.before) = MaxSessionsBound
  /\ Len(memory.sessions) = MaxSessionsBound
  /\ journal.last.session_id \in SessionIds(memory)

\* request r's model call returns and r emits its final answer
AnswersNow(r) == req[r].pc = "model" /\ EmitsFinal(req'[r])

\* the store holds q's session, and its last event is an agent_response
\* carrying q's answer
AnswerRecorded(mem, q) ==
  /\ HasSession(mem, q.session_id)
  /\ LET events == SessionEvents(mem, q.session_id)
     IN /\ events # <<>>
        /\ events[Len(events)].event_type = "agent_response"
        /\ events[Len(events)].content = q.content

\* C32: whenever a call emits its final answer, its session exists and holds
\* an agent_response event carrying that answer, whatever sessions other
\* calls created while the call was suspended, purges at max_sessions
\* included.
C32_AnswerRecorded ==
  [][\A r \in Requests : AnswersNow(r) => AnswerRecorded(memory', req'[r])]_vars

\* a call gave its final answer although its session had been purged and the
\* agent_response was not added
C32_Witness ==
  \E r \in Requests :
    /\ EmitsFinal(req[r])
    /\ ~HasSession(memory, req[r].session_id)
    /\ req[r].logged[Len(req[r].logged)].event_type = "agent_response"
    /\ ~req[r].logged[Len(req[r].logged)].added

\* the requests that have started on session session_id
CallsOn(session_id) ==
  {r \in Requests : req[r].pc # "idle" /\ req[r].session_id = session_id}

RECURSIVE LoggedBy(_)
\* the number of events the requests of a set logged
LoggedBy(rs) ==
  IF rs = {} THEN 0
  ELSE LET r == CHOOSE x \in rs : TRUE
       IN Len(req[r].logged) + LoggedBy(rs \ {r})

\* C33: when two requests run on one session id, concurrently or not, and the
\* session is below its event cap, the store holds one session of that id,
\* and the session holds every event of both requests exactly once, the
\* events of each request in the order of its steps.
C33_NothingLostOrDuplicated ==
  \A r1, r2 \in Requests :
    (/\ r1 # r2 /\ {r1, r2} \subseteq CallsOn(req[r1].session_id)
     /\ LoggedBy({r1, r2}) < memory.max_events_per_session) =>
      LET session_id == req[r1].session_id
          events == SessionEvents(memory, session_id)
      IN /\ Cardinality(HeldAs(memory.sessions, session_id)) = 1
         /\ Len(events) = LoggedBy({r1, r2})
         /\ \A i, j \in DOMAIN events :
              events[i].event_id = events[j].event_id => i = j
         /\ \A r \in {r1, r2} :
              /\ \A k \in DOMAIN req[r].logged : req[r].logged[k].added
              /\ [k \in 1..Len(OwnEvents(req[r])) |-> OwnEvents(req[r])[k].event_id]
                   = LoggedIds(req[r])

\* two calls were in flight at once on the fresh session "a"; both are over,
\* and the session holds an event of the second between two of the first
C33_Witness ==
  /\ config.concurrent
  /\ req["r1"].pc = "done" /\ req["r2"].pc = "done"
  /\ req["r1"].given = "a" /\ req["r2"].given = "a"
  /\ Len(memory.sessions) = 1
  /\ LET events == memory.sessions[1].events
         mine(i) == \E k \in DOMAIN req["r1"].logged :
                      req["r1"].logged[k].event_id = events[i].event_id
     IN \E i, j, m \in DOMAIN events :
          i < m /\ m < j /\ mine(i) /\ mine(j) /\ ~mine(m)

\* the tool a tool_call block of content names, "" when it names none
NamedTool(content) ==
  LET b == _parse_block(content, "tool_call")
      tool_name == IF BlockTruthy(b) THEN DictGet(b.obj, "tool", Str("")) ELSE Str("")
  IN IF tool_name.kind = "str" THEN tool_name.s ELSE ""

\* the peer a delegate block of content names with a task, "" when it names none
NamedPeer(content) ==
  LET b == _parse_block(content, "delegate")
      agent_name == IF BlockTruthy(b) THEN DictGet(b.obj, "agent", Str("")) ELSE Str("")
      task == IF BlockTruthy(b) THEN DictGet(b.obj, "task", Str("")) ELSE Str("")
  IN IF agent_name.kind = "str" /\ Truthy(task) THEN agent_name.s ELSE ""

\* content holds a tool call of a tool a provider lists and a delegation to a
\* configured peer
ToolCallAndDelegate(content) ==
  /\ Listing(NamedTool(content)) # {}
  /\ NamedPeer(content) \in DOMAIN sub_agents

DelegationTrace == {"peer", "delegation_request", "delegation_response", "delegation_error"}

\* C34: when one model output holds both a valid tool call and a valid
\* delegation, the step records the tool_call and invokes the tool, and until
\* the next model call no peer is invoked and no delegation event is recorded.
C34_ToolCallBeforeDelegate ==
  /\ [](\A r \in Requests :
          \A n \in DOMAIN req[r].outputs :
            ToolCallAndDelegate(req[r].outputs[n]) =>
              LET T == StepTrace(req[r], n)
              IN /\ T # <<>> /\ T[1] = "tool_call"
                 /\ Count(T, "tool") = 1
                 /\ \A i \in DOMAIN T : T[i] \notin DelegationTrace)
  /\ [][\A r \in Requests :
          (/\ req[r].pc = "model"
           /\ Len(req'[r].outputs) = Len(req[r].outputs) + 1
           /\ ToolCallAndDelegate(req'[r].content)) =>
            /\ IssuesToolCall(r)
            /\ req'[r].tool_name = NamedTool(req'[r].content)
            /\ req'[r].pc \in {"tool_init", "tool_call"}
            /\ req'[r].n_peer = req[r].n_peer]_vars

\* the call whose one step had an output with both directives is over: the
\* calculator was invoked and its result recorded, the peer was never invoked
C34_Witness ==
  \E r \in Requests :
    /\ req[r].outputs = <<ToolAndDeleg>>
    /\ ToolCallAndDelegate(ToolAndDeleg)
    /\ req[r].pc = "done"
    /\ req[r].n_tool = 1 /\ req[r].n_peer = 0
    /\ Count(StepTrace(req[r], 1), "tool_result") = 1
    /\ "worker" \in DOMAIN sub_agents

\* what request r adds to its trace in a step
Traced(r) == SubSeq(req'[r].trace, Len(req[r].trace) + 1, Len(req'[r].trace))

\* the labels of the delegation spans request r ends in a step
DelegationLabels(r) ==
  LET ended == req'[r].spans_ended
  IN {ended[i].success : i \in {j \in (Len(req[r].spans_ended) + 1)..Len(ended) :
                                  ended[j].name = "delegation"}}

\* request r's model call returns a delegation to a peer that is not configured
NamesUnknownPeer(r) ==
  /\ req[r].pc = "model"
  /\ Len(req'[r].outputs) = Len(req[r].outputs) + 1
  /\ NamedPeer(req'[r].content) \notin DOMAIN sub_agents

Recording(r, event_type) == \E i \in DOMAIN Traced(r) : Traced(r)[i] = event_type

\* C35: the delegation span is ended with the failure label exactly when the
\* attempt records delegation_error or names an unknown peer, and with the
\* success label exactly when it records delegation_response.
C35_DelegationLabelMatchesOutcome ==
  [][\A r \in Requests :
       /\ FALSE \in DelegationLabels(r)
            <=> (Recording(r, "delegation_error")
                   \/ (NamesUnknownPeer(r) /\ DelegationLabels(r) # {}))
       /\ TRUE \in DelegationLabels(r) <=> Recording(r, "delegation_response")]_vars

\* the peer failed, the call recorded delegation_error, and the delegation
\* span was ended with the success label
C35_Witness ==
  \E r \in Requests :
    /\ req[r].trace # <<>> /\ req[r].spans_ended # <<>>
    /\ \E i \in DOMAIN req[r].trace : req[r].trace[i] = "delegation_error"
    /\ \A i \in DOMAIN req[r].trace : req[r].trace[i] # "delegation_response"
    /\ Count(req[r].spans_ended, [name |-> "delegation", success |-> TRUE]) = 1
    /\ Count(req[r].spans_ended, [name |-> "delegation", success |-> FALSE]) = 0

\* the consumer of request r closes the generator at a chunk of the final
\* answer: the step is process_message's close
Abandons(r) ==
  /\ req[r].pc = "yield" /\ req[r].after = "final"
  /\ req'[r].pc = "done" /\ req'[r].orphaned

\* the names of the spans request r ends in a step
EndedNow(r) ==
  SubSeq(NamesOf(req'[r].spans_ended), Len(req[r].spans_ended) + 1,
         Len(req'[r].spans_ended))

\* C36: with tracing enabled, when a consumer abandons a streamed answer after
\* a chunk, the close of process_message leaves both spans ended, the step
\* span first and the request span after it, and nothing ends a span later.
C36_AbandonedStreamEndsSpansInOrder ==
  [][otel_initialized =>
       \A r \in Requests :
         /\ Abandons(r) => /\ EndedNow(r) = <<"step", "request">>
                           /\ req'[r].stack = <<>>
         /\ (req[r].pc = "done" /\ Moves(r)) => EndedNow(r) = <<>>]_vars

\* a streamed answer of several words was abandoned after its first chunk:
\* process_message's close ended the step span, and the request span is
\* still open, left to the loop's close
C36_Witness ==
  \E r \in Requests :
    /\ otel_initialized
    /\ req[r].stream /\ req[r].pc = "done" /\ req[r].orphaned
    /\ Len(req[r].chunks) = 1 /\ req[r].pending # <<>>
    /\ NamesOf(req[r].stack) = <<"request">>
    /\ req[r].spans_ended[Len(req[r].spans_ended)] = [name |-> "step", success |-> TRUE]

\* the types and contents of the events a store holds for a session
TypesAndContents(mem, session_id) ==
  LET events == SessionEvents(mem, session_id)
  IN [i \in DOMAIN events |-> <<events[i].event_type, events[i].content>>]

\* C37: given the same input, model outputs and collaborator outcomes, the
\* agent asked to stream and the agent asked not to make the same model, tool
\* and peer invocations, in the same order, and their sessions hold events of
\* the same types and contents in the same order, at every point of the two
\* calls.
C37_StreamChangesOnlyChunks ==
  LET a == req[Caller]
      b == journal.req[Caller]
  IN /\ a.n_model = b.n_model /\ a.n_tool = b.n_tool
     /\ a.n_peer = b.n_peer /\ a.n_fetch = b.n_fetch
     /\ a.trace = b.trace /\ a.outputs = b.outputs /\ a.sent = b.sent
     /\ a.session_id = b.session_id
     /\ TypesAndContents(memory, a.session_id)
          = TypesAndContents(journal.memory, b.session_id)
     /\ mcp_clients = journal.mcp_clients
     /\ sub_agents = journal.sub_agents

\* both calls used the calculator and then answered; the one in two chunks,
\* the other in one
C37_Witness ==
  LET a == req[Caller]
      b == journal.req[Caller]
  IN /\ a.stream /\ ~b.stream
     /\ a.outputs = <<ToolCalc, Hello>>
     /\ ReadToEnd(a) /\ ReadToEnd(b)
     /\ Len(a.chunks) = 2 /\ Len(b.chunks) = 1
     /\ a.n_tool = 1 /\ b.n_tool = 1
     /\ Count(TypesOf(SessionEvents(journal.memory, b.session_id)), "agent_response") = 1

\* how the call of request record q ends, "" while it has not got there
EndsAs(q) ==
  IF q.pc = "yield" THEN q.after ELSE IF q.pc = "done" THEN q.outcome ELSE ""

\* C38: a call ends as a final answer, as the step-limit message or as an
\* apology, and hands over the chunks of that ending alone; it records one
\* agent_response exactly when it ends as a final answer and one error
\* exactly when it ends as an apology, so never both and neither for the
\* step-limit message, and none of the two before it ends.
C38_OneOutcome ==
  \A r \in Requests :
    LET q == req[r]
        answers == Count(TypesOf(q.logged), "agent_response")
        errors == Count(TypesOf(q.logged), "error")
    IN /\ answers = Count(SessionTypes(q), "agent_response")
       /\ errors = Count(SessionTypes(q), "error")
       /\ answers = (IF EndsAs(q) = "final" THEN 1 ELSE 0)
       /\ errors = (IF EndsAs(q) = "apology" THEN 1 ELSE 0)
       /\ q.pc \in {"yield", "done"} => EndsAs(q) \in {"final", "maxsteps", "apology"}
       /\ q.pc \notin {"yield", "done"} => q.chunks = <<>>
       /\ EndsAs(q) = "maxsteps" => q.chunks = <<MaxStepsMsg>>
       /\ EndsAs(q) = "apology" => Len(q.chunks) = 1 /\ q.chunks[1] # MaxStepsMsg
       /\ EndsAs(q) = "final"
            => \/ ~q.stream /\ q.chunks = <<q.content>>
               \/ q.stream /\ \E n \in 0..Len(WordChunks(q.content)) :
                                q.chunks = SubSeq(WordChunks(q.content), 1, n)

\* a call used the calculator, then the model failed: the call handed over
\* the apology as its one chunk and recorded one error and no agent_response
C38_Witness ==
  \E r \in Requests :
    /\ req[r].pc = "done" /\ req[r].outcome = "apology"
    /\ req[r].n_tool = 1 /\ req[r].n_model = 2
    /\ Len(req[r].chunks) = 1
    /\ Count(SessionTypes(req[r]), "error") = 1
    /\ Count(SessionTypes(req[r]), "agent_response") = 0

\* the step is an add_event on a session id the store does not hold
AddsToUnknown ==
  /\ budget'.appends < budget.appends
  /\ ~HasSession(memory, journal'.last.session_id)

\* C39: add_event on a session id that is not in the store returns false and
\* leaves the store as it was: no session is created, no event is stored and
\* no session's updated_at changes.
C39_UnknownSessionRefused ==
  [][AddsToUnknown =>
       /\ journal'.last.op = "add_event" /\ ~journal'.last.ok
       /\ memory' = memory
       /\ journal'.appended = journal.appended]_vars

\* add_event on the id "missing" returned false in a store that holds a
\* session with an event, and the store is as it was before
C39_Witness ==
  /\ journal.last.op = "add_event" /\ ~journal.last.ok
  /\ journal.last.session_id = "missing"
  /\ memory.sessions # <<>>
  /\ \E i \in DOMAIN memory.sessions : memory.sessions[i].events # <<>>
  /\ journal.last.before = memory.sessions

\* the fence lines of the kind in a text
FencesOf(content, block_type) ==
  {i \in DOMAIN content :
     content[i].t = (IF block_type = "tool_call" THEN "OT" ELSE "OD")}

\* what follows the fence line at i up to the next fence line of any kind;
\* closed tells whether there is one
BlockFrom(content, i) ==
  LET later == {n \in (i + 1)..Len(content) : IsFence(content[n])}
  IN IF later = {} THEN [closed |-> FALSE, body |-> SubSeq(content, i + 1, Len(content))]
     ELSE [closed |-> TRUE, body |-> SubSeq(content, i + 1, MinOf(later) - 1)]

\* the object of the block that opens at fence line i, absent unless the
\* block is { members } up to the next fence line
ObjectOfBlock(content, i) ==
  LET b == BlockFrom(content, i)
      n == Len(b.body)
  IN IF /\ b.closed /\ n >= 2
        /\ b.body[1].t = "LB" /\ b.body[n].t = "RB"
        /\ \A k \in 2..(n - 1) : b.body[k].t = "M"
     THEN [found |-> TRUE, obj |-> DictOf(SubSeq(b.body, 2, n - 1))]
     ELSE NoBlock

\* the parser was applied to the text held
Parsed == journal.block_type # ""

\* C40 as stated: the result is the object of the first fenced block of the
\* requested kind when that block is well-formed, and absent otherwise.
C40_FirstBlockOfKind ==
  Parsed =>
    LET fences == FencesOf(journal.content, journal.block_type)
    IN journal.result = IF fences = {} THEN NoBlock
                        ELSE ObjectOfBlock(journal.content, MinOf(fences))

\* C40, amended: the result is the object of the first fenced block of the
\* requested kind whose fence line is directly followed by {, when that block
\* is well-formed, and absent otherwise; blocks of the kind that do not open
\* with { are passed over, as are prose and blocks of the other kind.
C40_FirstBraceBlockOfKind ==
  Parsed =>
    LET content == journal.content
        opened == {i \in FencesOf(content, journal.block_type) :
                     i < Len(content) /\ content[i + 1].t = "LB"}
    IN journal.result = IF opened = {} THEN NoBlock
                        ELSE ObjectOfBlock(content, MinOf(opened))

\* a tool_call block without a brace came first, and the parser returned the
\* object of the well-formed tool_call block after it
C40_Witness ==
  /\ journal.block_type = "tool_call"
  /\ journal.content = <<Tok("OT"), Tok("J"), Tok("CL")>>
                         \o ToolBlock(<<Mem("tool", Str("echo")), Mem("arguments", Obj)>>)
  /\ journal.result.found
  /\ DictGet(journal.result.obj, "tool", Str("")) = Str("echo")

====
